---- MODULE Spec2Model ----
(***************************************************************************)
(* Base-image governance of kubeflow/pipelines-components:                 *)
(*   - override_file_images (scripts/lib/base_image.py), the rewriter of   *)
(*     base_image literals, as a step machine over a file on disk;         *)
(*   - is_valid_base_image, the allowlist validator, as a pure function    *)
(*     applied to bounded inputs;                                          *)
(*   - _load_compiled_yaml (scripts/lib/kfp_compilation.py) and the image  *)
(*     resolver get_base_images_from_compile_result, applied in sequence   *)
(*     to bounded streams of compiled documents;                           *)
(*   - check_base_image_tags, the tag check over the asset files of a set  *)
(*     of directories, as a step machine;                                  *)
(*   - load_base_image_allowlist, applied to bounded allowlist documents;  *)
(*   - override_base_images, the rewriter run over the *.py files of a set *)
(*     of directories, as a step machine;                                  *)
(*   - find_decorated_functions_runtime, applied to bounded modules;       *)
(*   - validate_tag (scripts/lib/oci.py), applied to bounded tags;         *)
(*   - the decorator finders of kfp_compilation.py and parsing.py, applied *)
(*     to bounded parsed files;                                            *)
(*   - load_module_from_path, as a step machine over sys.modules.          *)
(* Text is a sequence of one-character strings.  The source file is kept   *)
(* on disk as such a sequence, line terminators included.                  *)
(***************************************************************************)
EXTENDS Integers, Sequences, FiniteSets, TLC

VARIABLES
    exists,         \* the file exists on disk
    disk,           \* the file's content on disk
    container_tag,  \* argument: the new tag
    image_prefix,   \* argument: the image prefix
    dry_run,        \* argument
    pc,             \* position inside override_file_images
    base_images,    \* locations returned by get_base_image_locations
    to_replace,     \* candidates still to edit, in processing order
    lines,          \* the in-memory line buffer
    outcome,        \* "running", "returned" or the exception raised
    result,         \* the returned (was_modified, new_content)
    disk0,          \* history: the content when the current call started
    located,        \* history: the literals of that content
    touched,        \* history: the current call has read the file
    writes,         \* history: number of writes of the current call
    calls,          \* history: number of calls started
    prev,           \* history: the previous call
    image,          \* validator input: the image string
    allowlist,      \* validator input: the allowlist, or NoAllowlist
    verdict,        \* validator output
    stream,         \* compiler output: the documents of the compiled YAML stream
    ir_yaml,        \* result of _load_compiled_yaml / compile_and_get_yaml
    extracted,      \* result of get_base_images_from_compile_result
    check_args,     \* check_base_image_tags: directories, image_prefix, expected_tag
    tree,           \* the file system: existing directories and their asset files
    candidate_files,\* the discovered asset files, sorted by path
    cursor,         \* the index of the next candidate file
    results,        \* the records
    all_valid,      \* the returned verdict
    check_pc,       \* position inside check_base_image_tags
    tmpdir,         \* the scratch directory: "none", "exists" or "removed"
    tmpdirs_made,   \* how many scratch directories the call has created
    compiled_to,    \* the compilations so far: file, function, output path
    allowlist_data, \* load_base_image_allowlist: the parsed allowlist file
    loaded_allowlist,\* its result: a policy or the exception
    loader_pc,      \* "idle", "load" or "done"
    batch_args,     \* override_base_images: directories, container_tag, image_prefix, dry_run
    batch_fs,       \* the files below the directories, by path
    batch_fs0,      \* history: the files when override_base_images was called
    dir_cursor,     \* _iter_python_files: the index of the next directory
    pending,        \* _iter_python_files: files of the current directory not yet yielded
    modified_files, \* the list being returned
    reports,        \* history: the calls of override_file_images and what they reported
    batch_pc,       \* "idle", "iterate", "returned" or the exception raised
    loaded_module,  \* find_decorated_functions_runtime: the module's attributes
    decorator_type, \* argument: "component" or "pipeline"
    decorated,      \* the returned list of (name, object)
    finder_pc,      \* "idle", "find" or "done"
    tag_arg,        \* validate_tag: the tag
    tag_outcome,    \* "idle", "pending", "returned" or "ValueError"
    source_file,    \* the decorator finders: the file read and parsed
    names_ast,      \* result of find_decorated_function_names_ast
    with_decorator, \* result of find_functions_with_decorator
    wanted,         \* its decorator_type argument
    ast_pc,         \* "idle", "names", "with" or "done"
    sys_modules,    \* load_module_from_path: sys.modules, from names to modules
    loading,        \* the call whose module body is running
    load_log,       \* the calls so far: name, module identity, outcome
    load_pc         \* "idle", "ready" or "exec"

ovars == <<exists, disk, container_tag, image_prefix, dry_run, pc, base_images,
           to_replace, lines, outcome, result, disk0, located, touched, writes, calls,
           prev>>
vvars == <<image, allowlist, verdict>>
kvars == <<stream, ir_yaml, extracted>>
cvars == <<check_args, tree, candidate_files, cursor, results, all_valid, check_pc,
           tmpdir, tmpdirs_made, compiled_to>>
avars == <<allowlist_data, loaded_allowlist, loader_pc>>
bvars == <<batch_args, batch_fs, batch_fs0, dir_cursor, pending, modified_files,
           reports, batch_pc>>
fvars == <<loaded_module, decorator_type, decorated, finder_pc>>
tvars == <<tag_arg, tag_outcome>>
svars == <<source_file, names_ast, with_decorator, wanted, ast_pc>>
mvars == <<sys_modules, loading, load_log, load_pc>>
vars == <<ovars, vvars, kvars, cvars, avars, bvars, fvars, tvars, svars, mvars>>

-----------------------------------------------------------------------------
(* Bounds *)

MaxLines == 2
MaxCalls == 2

-----------------------------------------------------------------------------
(* Characters and text *)

LF == "\n"
CR == "\r"
DQ == "\""
SQ == "'"
Quotes == {DQ, SQ}

Min(S) == CHOOSE m \in S : \A k \in S : m <= k
Max(S) == CHOOSE m \in S : \A k \in S : m >= k

\* s[a:b] of Python for 0 <= a, 0 <= b: clipped to the length of s
Slice(s, a, b) == SubSeq(s, a + 1, IF b < Len(s) THEN b ELSE Len(s))

RECURSIVE Concat(_)
Concat(ss) == IF ss = <<>> THEN <<>> ELSE Head(ss) \o Concat(Tail(ss))

StartsWith(s, p) == Len(p) <= Len(s) /\ SubSeq(s, 1, Len(p)) = p
EndsWith(s, p) == Len(p) <= Len(s) /\ SubSeq(s, Len(s) - Len(p) + 1, Len(s)) = p

\* str.rsplit(sep, 1)[0]
RSplitHead(s, sep) ==
    LET at == {i \in 1..Len(s) : s[i] = sep}
    IN  IF at = {} THEN s ELSE SubSeq(s, 1, Max(at) - 1)

\* Path.read_text(): text mode with universal newlines, "\r\n" and "\r" read as "\n"
RECURSIVE ReadText(_)
ReadText(b) ==
    IF b = <<>> THEN <<>>
    ELSE IF Head(b) = CR
         THEN IF Len(b) >= 2 /\ b[2] = LF
              THEN <<LF>> \o ReadText(SubSeq(b, 3, Len(b)))
              ELSE <<LF>> \o ReadText(Tail(b))
         ELSE <<Head(b)>> \o ReadText(Tail(b))

\* Path.write_text() on POSIX: "\n" is written as os.linesep, which is "\n"
WriteText(t) == t

\* str.splitlines(keepends=True)
RECURSIVE SplitLines(_)
SplitLines(t) ==
    IF t = <<>> THEN <<>>
    ELSE LET brk == {i \in 1..Len(t) : t[i] \in {LF, CR}}
         IN  IF brk = {} THEN <<t>>
             ELSE LET i == Min(brk)
                      e == IF t[i] = CR /\ i < Len(t) /\ t[i + 1] = LF THEN i + 1 ELSE i
                  IN  <<SubSeq(t, 1, e)>> \o SplitLines(SubSeq(t, e + 1, Len(t)))

-----------------------------------------------------------------------------
(* OCI tag validation *)

WordChars ==
    {"a","b","c","d","e","f","g","h","i","j","k","l","m","n","o","p","q","r","s","t",
     "u","v","w","x","y","z","A","B","C","D","E","F","G","H","I","J","K","L","M","N",
     "O","P","Q","R","S","T","U","V","W","X","Y","Z","0","1","2","3","4","5","6","7",
     "8","9","_"}

MaxTagLen == 128

\* _TAG_PATTERN.fullmatch(tag): [\w](?:[\w.-]{0,126}[\w])? under re.ASCII
ValidTag(tag) ==
    /\ Len(tag) >= 1
    /\ Len(tag) <= MaxTagLen
    /\ tag[1] \in WordChars
    /\ tag[Len(tag)] \in WordChars
    /\ \A i \in 2..(Len(tag) - 1) : tag[i] \in WordChars \cup {".", "-"}

-----------------------------------------------------------------------------
(* The structural locator, get_base_image_locations.                       *)
(* Source text in the model: "B" stands for the keyword `base_image=` of a *)
(* decorator call, a quote character opens a string literal, adjacent      *)
(* literals separated by blanks or line breaks form one constant (the      *)
(* keyword sits inside the call's parentheses), anything else after "B" is *)
(* a non-literal expression, and every other character is other code.      *)

LineOf(t, i) == 1 + Cardinality({j \in 1..(i - 1) : t[j] = LF})
ColOf(t, i) == LET nl == {j \in 1..(i - 1) : t[j] = LF}
               IN  IF nl = {} THEN i - 1 ELSE i - 1 - Max(nl)

\* one string literal opening at index i: its content and the index after it
Piece(t, i) ==
    LET q == t[i]
        triple == i + 2 <= Len(t) /\ t[i + 1] = q /\ t[i + 2] = q
    IN  IF triple
        THEN LET cl == {j \in (i + 3)..(Len(t) - 2) :
                            t[j] = q /\ t[j + 1] = q /\ t[j + 2] = q}
             IN  IF cl = {} THEN [ok |-> FALSE, content |-> <<>>, after |-> 0]
                 ELSE [ok |-> TRUE, content |-> SubSeq(t, i + 3, Min(cl) - 1),
                       after |-> Min(cl) + 3]
        ELSE LET cl == {j \in (i + 1)..Len(t) : t[j] \in {q, LF}}
             IN  IF cl = {} \/ t[Min(cl)] = LF
                 THEN [ok |-> FALSE, content |-> <<>>, after |-> 0]
                 ELSE [ok |-> TRUE, content |-> SubSeq(t, i + 1, Min(cl) - 1),
                       after |-> Min(cl) + 1]

SkipBlank(t, i) ==
    LET solid == {j \in i..Len(t) : t[j] \notin {" ", LF}}
    IN  IF solid = {} THEN Len(t) + 1 ELSE Min(solid)

\* a string constant opening at index i: the concatenated value of its pieces
RECURSIVE Constant(_, _, _)
Constant(t, i, val) ==
    LET p == Piece(t, i)
    IN  IF ~p.ok THEN [ok |-> FALSE, value |-> <<>>, after |-> 0]
        ELSE LET k == SkipBlank(t, p.after)
             IN  IF k <= Len(t) /\ t[k] \in Quotes
                 THEN Constant(t, k, val \o p.content)
                 ELSE [ok |-> TRUE, value |-> val \o p.content, after |-> p.after]

RECURSIVE Scan(_, _, _)
Scan(t, i, acc) ==
    IF i > Len(t) THEN [error |-> "none", locs |-> acc]
    ELSE IF t[i] = "B"
    THEN IF i + 1 <= Len(t) /\ t[i + 1] \in Quotes
         THEN LET c == Constant(t, i + 1, <<>>)
              IN  IF ~c.ok THEN [error |-> "SyntaxError", locs |-> <<>>]
                  ELSE Scan(t, c.after,
                            Append(acc, [value |-> c.value,
                                         start_line |-> LineOf(t, i + 1),
                                         start_col |-> ColOf(t, i + 1),
                                         end_line |-> LineOf(t, c.after - 1),
                                         end_col |-> ColOf(t, c.after - 1) + 1]))
         ELSE [error |-> "ValueError", locs |-> <<>>]
    ELSE IF t[i] \in Quotes
    THEN LET p == Piece(t, i)
         IN  IF ~p.ok THEN [error |-> "SyntaxError", locs |-> <<>>]
             ELSE Scan(t, p.after, acc)
    ELSE Scan(t, i + 1, acc)

get_base_image_locations(bytes) == Scan(ReadText(bytes), 1, <<>>)

-----------------------------------------------------------------------------
(* The source files the rewriter is run on *)

MAIN == <<":", "m", "a", "i", "n">>
ValA == <<"r", "-", "a">> \o MAIN
ValB == <<"r", "-", "b", ":", "c">> \o MAIN
ValQ == <<"q", "-", "a">> \o MAIN
ValT == <<"r", "-", "a", ":", "1">>
Lit(q, v) == q \o v \o q

\* each template is a sequence of physical lines, written without terminators
Templates ==
    { << <<"x">> >>,
      << <<"B">> \o Lit(<<DQ>>, ValA) \o <<",", "x">> >>,
      << <<"x", "B">> \o Lit(<<SQ>>, ValB) >>,
      << <<"B">> \o Lit(<<DQ, DQ, DQ>>, ValA) >>,
      << <<"B">> \o Lit(<<SQ, SQ, SQ>>, ValB) \o <<"x">> >>,
      << <<"B">> \o Lit(<<DQ>>, ValQ) >>,
      << <<"B">> \o Lit(<<SQ>>, ValT) >>,
      << <<"B", "v">> >>,
      << <<"B">> \o Lit(<<DQ>>, <<"r", "-", "a">>), Lit(<<DQ>>, MAIN) >>,
      << <<"B">> \o Lit(<<DQ>>, ValA) \o <<"B">> \o Lit(<<SQ>>, ValB) >>,
      << <<"x">> \o Lit(<<DQ>>, <<"m">>) >> }

EOLs == {<<LF>>, <<CR, LF>>}

RECURSIVE Render(_, _)
Render(phys, eol) ==
    IF phys = <<>> THEN <<>> ELSE Head(phys) \o eol \o Render(Tail(phys), eol)

Files ==
    { Render(Concat(ts), eol) :
        ts \in UNION {[1..n -> Templates] : n \in 1..MaxLines}, eol \in EOLs }

Tags == { <<"1">>, <<"m", "a", "i", "n">>, <<>>, <<"1", "-">> }
Prefixes == { <<"r">> }

-----------------------------------------------------------------------------
(* override_file_images *)

NoResult == [was_modified |-> FALSE, has_content |-> FALSE, new_content |-> <<>>]
NoPrev == [dry_run |-> FALSE, outcome |-> "none", result |-> NoResult, disk0 |-> <<>>,
           container_tag |-> <<>>]

\* faulty variant: the sentinel tag is not checked
IsCandidate_anyTag(bi, prefix) == StartsWith(bi.value, prefix \o <<"-">>)

IsCandidate(bi, prefix) ==
    StartsWith(bi.value, prefix \o <<"-">>) /\ EndsWith(bi.value, MAIN)

KeyLess(a, b) ==
    \/ a.start_line < b.start_line
    \/ a.start_line = b.start_line /\ a.start_col < b.start_col

Without(s, i) == SubSeq(s, 1, i - 1) \o SubSeq(s, i + 1, Len(s))

\* faulty variant: the edits are applied in the order of discovery
SortedDescending_keepsOrder(s) == s

\* sorted(to_replace, key=lambda x: (x.start_line, x.start_col), reverse=True)
RECURSIVE SortedDescending(_)
SortedDescending(s) ==
    IF s = <<>> THEN <<>>
    ELSE LET i == Min({k \in 1..Len(s) : \A j \in 1..Len(s) : ~KeyLess(s[k], s[j])})
         IN  <<s[i]>> \o SortedDescending(Without(s, i))

Reversed(s) == [i \in 1..Len(s) |-> s[Len(s) + 1 - i]]

\* faulty variant: the replacement is always written with one quote character
QuoteOf_alwaysSingle(line, start_col) == <<line[start_col + 1]>>

\* the quote the replacement is written with (lines 347-348)
QuoteOf(line, start_col) ==
    LET quote_char == line[start_col + 1]
    IN  IF Slice(line, start_col + 1, start_col + 3) = <<quote_char, quote_char>>
        THEN <<quote_char, quote_char, quote_char>>
        ELSE <<quote_char>>

\* the new value of a literal (line 343)
NewValue(value, tag) == RSplitHead(value, ":") \o <<":">> \o tag

\* the replaced line (line 349)
NewLine(line, bi, tag) ==
    LET quote == QuoteOf(line, bi.start_col)
    IN  Slice(line, 0, bi.start_col) \o quote \o NewValue(bi.value, tag) \o quote
        \o Slice(line, bi.end_col, Len(line))

Raise(e) ==
    /\ pc' = "done"
    /\ outcome' = e
    /\ result' = NoResult

Return(r) ==
    /\ pc' = "done"
    /\ outcome' = "returned"
    /\ result' = r

\* faulty variant: the tag is not validated
Validate_skipped ==
    /\ pc = "validate"
    /\ pc' = "locate"
    /\ UNCHANGED <<outcome, result>>
    /\ UNCHANGED <<exists, disk, container_tag, image_prefix, dry_run, base_images,
                   to_replace, lines, disk0, located, touched, writes, calls, prev>>

\* line 326
Validate ==
    /\ pc = "validate"
    /\ IF ValidTag(container_tag)
       THEN pc' = "locate" /\ UNCHANGED <<outcome, result>>
       ELSE Raise("ValueError")
    /\ UNCHANGED <<exists, disk, container_tag, image_prefix, dry_run, base_images,
                   to_replace, lines, disk0, located, touched, writes, calls, prev>>

\* faulty variant: the locator's error is swallowed and the file treated as having no literal
Locate_swallowsError ==
    /\ pc = "locate"
    /\ IF ~exists
       THEN Raise("FileNotFoundError") /\ UNCHANGED <<base_images, touched>>
       ELSE /\ touched' = TRUE
            /\ base_images' = get_base_image_locations(disk).locs
            /\ pc' = "select"
            /\ UNCHANGED <<outcome, result>>
    /\ UNCHANGED <<exists, disk, container_tag, image_prefix, dry_run, to_replace,
                   lines, disk0, located, writes, calls, prev>>

\* line 328; the locator returns the locations in an order of its own
Locate ==
    /\ pc = "locate"
    /\ IF ~exists
       THEN Raise("FileNotFoundError") /\ UNCHANGED <<base_images, touched>>
       ELSE LET r == get_base_image_locations(disk)
            IN  /\ touched' = TRUE
                /\ IF r.error # "none"
                   THEN Raise(r.error) /\ UNCHANGED base_images
                   ELSE /\ base_images' \in {r.locs, Reversed(r.locs)}
                        /\ pc' = "select"
                        /\ UNCHANGED <<outcome, result>>
    /\ UNCHANGED <<exists, disk, container_tag, image_prefix, dry_run, to_replace,
                   lines, disk0, located, writes, calls, prev>>

\* lines 330-334
SelectCandidates ==
    /\ pc = "select"
    /\ LET keep(bi) == IsCandidate(bi, image_prefix)
       IN  /\ to_replace' = SelectSeq(base_images, keep)
           /\ IF SelectSeq(base_images, keep) = <<>>
              THEN Return(NoResult)
              ELSE pc' = "read" /\ UNCHANGED <<outcome, result>>
    /\ UNCHANGED <<exists, disk, container_tag, image_prefix, dry_run, base_images,
                   lines, disk0, located, touched, writes, calls, prev>>

\* lines 336-339: the line buffer, and the order of the edits
ReadLines ==
    /\ pc = "read"
    /\ lines' = SplitLines(ReadText(disk))
    /\ to_replace' = SortedDescending(to_replace)
    /\ pc' = "edit"
    /\ UNCHANGED <<exists, disk, container_tag, image_prefix, dry_run, base_images,
                   outcome, result, disk0, located, touched, writes, calls, prev>>

\* faulty variant: every iteration writes the buffer to the file
Edit_writesThrough ==
    /\ pc = "edit"
    /\ to_replace # <<>>
    /\ LET bi == Head(to_replace)
       IN  IF bi.start_line # bi.end_line
           THEN Raise("ValueError") /\ UNCHANGED <<lines, to_replace, disk, writes>>
           ELSE /\ lines' = [lines EXCEPT ![bi.start_line] =
                                NewLine(lines[bi.start_line], bi, container_tag)]
                /\ to_replace' = Tail(to_replace)
                /\ disk' = WriteText(Concat(lines'))
                /\ writes' = writes + 1
                /\ UNCHANGED <<pc, outcome, result>>
    /\ UNCHANGED <<exists, container_tag, image_prefix, dry_run, base_images,
                   disk0, located, touched, calls, prev>>

\* faulty variant: a multi-line candidate is skipped instead of rejected
Edit_skipsMultiLine ==
    /\ pc = "edit"
    /\ to_replace # <<>>
    /\ LET bi == Head(to_replace)
       IN  /\ lines' = IF bi.start_line # bi.end_line THEN lines
                       ELSE [lines EXCEPT ![bi.start_line] =
                                NewLine(lines[bi.start_line], bi, container_tag)]
           /\ to_replace' = Tail(to_replace)
           /\ UNCHANGED <<pc, outcome, result>>
    /\ UNCHANGED <<exists, disk, container_tag, image_prefix, dry_run, base_images,
                   disk0, located, touched, writes, calls, prev>>

\* lines 339-350: one iteration of the loop
Edit ==
    /\ pc = "edit"
    /\ to_replace # <<>>
    /\ LET bi == Head(to_replace)
       IN  IF bi.start_line # bi.end_line
           THEN Raise("ValueError") /\ UNCHANGED <<lines, to_replace>>
           ELSE IF bi.start_line > Len(lines) \/ bi.start_col >= Len(lines[bi.start_line])
           THEN Raise("IndexError") /\ UNCHANGED <<lines, to_replace>>
           ELSE /\ lines' = [lines EXCEPT ![bi.start_line] =
                                NewLine(lines[bi.start_line], bi, container_tag)]
                /\ to_replace' = Tail(to_replace)
                /\ UNCHANGED <<pc, outcome, result>>
    /\ UNCHANGED <<exists, disk, container_tag, image_prefix, dry_run, base_images,
                   disk0, located, touched, writes, calls, prev>>

\* faulty variant: the new content is written in dry-run mode too
Finish_ignoresDryRun ==
    /\ pc = "edit"
    /\ to_replace = <<>>
    /\ disk' = WriteText(Concat(lines))
    /\ writes' = writes + 1
    /\ Return([was_modified |-> TRUE, has_content |-> TRUE, new_content |-> Concat(lines)])
    /\ UNCHANGED <<exists, container_tag, image_prefix, dry_run, base_images,
                   to_replace, lines, disk0, located, touched, calls, prev>>

\* lines 352-355
Finish ==
    /\ pc = "edit"
    /\ to_replace = <<>>
    /\ LET new_content == Concat(lines)
       IN  /\ IF ~dry_run
              THEN disk' = WriteText(new_content) /\ writes' = writes + 1
              ELSE UNCHANGED <<disk, writes>>
           /\ Return([was_modified |-> TRUE, has_content |-> TRUE,
                      new_content |-> new_content])
    /\ UNCHANGED <<exists, container_tag, image_prefix, dry_run, base_images,
                   to_replace, lines, disk0, located, touched, calls, prev>>

\* the caller runs the rewriter again on the same file, with the same tag and prefix
CallAgain ==
    /\ pc = "done"
    /\ calls < MaxCalls
    /\ dry_run' \in BOOLEAN
    /\ prev' = [dry_run |-> dry_run, outcome |-> outcome, result |-> result,
                disk0 |-> disk0, container_tag |-> container_tag]
    /\ pc' = "validate"
    /\ outcome' = "running"
    /\ result' = NoResult
    /\ base_images' = <<>>
    /\ to_replace' = <<>>
    /\ lines' = <<>>
    /\ disk0' = disk
    /\ located' = get_base_image_locations(disk)
    /\ touched' = FALSE
    /\ writes' = 0
    /\ calls' = calls + 1
    /\ UNCHANGED <<exists, disk, container_tag, image_prefix>>

-----------------------------------------------------------------------------
(* is_valid_base_image and the allowlist.                                  *)
(* A compiled pattern is a sequence of atoms: a literal character or "."   *)
(* (any character but a line break), each possibly starred, or the anchor  *)
(* "$".                                                                    *)

MaxImageLen == 2
MaxPatterns == 2

Atom(kind, ch, star) == [kind |-> kind, ch |-> ch, star |-> star]

AtomMatches(a, c) ==
    \/ a.kind = "lit" /\ a.ch = c
    \/ a.kind = "any" /\ c # LF

\* the numbers of characters of s that pattern p can consume, starting after i
RECURSIVE Ends(_, _, _)
Ends(p, s, i) ==
    IF p = <<>> THEN {i}
    ELSE LET a == Head(p)
         IN  IF a.kind = "end"
             THEN IF i = Len(s) \/ (i = Len(s) - 1 /\ s[Len(s)] = LF)
                  THEN Ends(Tail(p), s, i) ELSE {}
             ELSE IF a.star
             THEN UNION { Ends(Tail(p), s, j) :
                            j \in {j \in i..Len(s) :
                                     \A k \in (i + 1)..j : AtomMatches(a, s[k])} }
             ELSE IF i < Len(s) /\ AtomMatches(a, s[i + 1])
                  THEN Ends(Tail(p), s, i + 1) ELSE {}

\* re.Pattern.match: some leading part of the string matches
re_match(p, s) == Ends(p, s, 0) # {}

\* re.Pattern.fullmatch: the whole string matches
re_fullmatch(p, s) == Len(s) \in Ends(p, s, 0)

ImageChars == {"a", "b"}
Images == UNION {[1..n -> ImageChars] : n \in 0..MaxImageLen}

Patterns ==
    { <<Atom("lit", "a", FALSE)>>,                                  \* a
      <<Atom("lit", "a", FALSE), Atom("any", ".", TRUE)>>,          \* a.*
      <<Atom("lit", "b", FALSE), Atom("end", "$", FALSE)>> }        \* b$

NoAllowlist == [present |-> FALSE, allowed_images |-> {}, allowed_image_patterns |-> <<>>]

Allowlists ==
    {NoAllowlist} \cup
    { [present |-> TRUE, allowed_images |-> imgs, allowed_image_patterns |-> pats] :
        imgs \in SUBSET {<<"b">>, <<"b", "a">>},
        pats \in UNION {[1..n -> Patterns] : n \in 0..MaxPatterns} }

\* lines 72-84
_is_allowlisted_image(img, al) ==
    IF img \in al.allowed_images THEN TRUE
    ELSE \E k \in 1..Len(al.allowed_image_patterns) :
            re_match(al.allowed_image_patterns[k], img)

\* lines 178-199
is_valid_base_image(img, al) ==
    IF img = <<>> THEN TRUE
    ELSE IF al.present THEN _is_allowlisted_image(img, al)
    ELSE FALSE

ValidatorIdle == image = <<>> /\ allowlist = NoAllowlist /\ verdict = "idle"

CheckImage ==
    /\ verdict = "idle"
    /\ verdict' = IF is_valid_base_image(image, allowlist) THEN "True" ELSE "False"
    /\ UNCHANGED <<image, allowlist>>

-----------------------------------------------------------------------------
(* Parsed YAML values.  A value is a record tagged with its Python type:   *)
(* None, a str, a list, or a dict (a function from keys to values).  A     *)
(* str of a document is atomic: "" is the empty string.                    *)

Null == [t |-> "null"]
Str(s) == [t |-> "str", s |-> s]
List(items) == [t |-> "list", items |-> items]
Map(kv) == [t |-> "map", kv |-> kv]
EmptyMap == Map([k \in {} |-> Null])

\* isinstance(v, dict)
IsDict(v) == v.t = "map"

\* k in d
Has(d, k) == k \in DOMAIN d.kv

\* d.get(k)
Get(d, k) == IF k \in DOMAIN d.kv THEN d.kv[k] ELSE Null

\* bool(v)
Truthy(v) ==
    CASE v.t = "null" -> FALSE
      [] v.t = "str" -> v.s # ""
      [] v.t = "list" -> v.items # <<>>
      [] v.t = "map" -> DOMAIN v.kv # {}

\* v or {}
OrEmpty(v) == IF Truthy(v) THEN v ELSE EmptyMap

-----------------------------------------------------------------------------
(* _load_compiled_yaml: the documents of the compiled stream, normalised   *)
(* to one document or to a {pipeline_spec, platform_spec} pair.            *)

MaxDocs == 3

\* line 40-42
_is_platform_spec(doc) == IsDict(Get(doc, "platforms"))

\* line 45-47
_is_pipeline_spec(doc) == Has(doc, "deploymentSpec") \/ Has(doc, "root")

\* next((i for i in 1..Len(s) if P(s[i])), 0)
FirstIndex(s, P(_)) ==
    LET hit == {i \in 1..Len(s) : P(s[i])}
    IN  IF hit = {} THEN 0 ELSE Min(hit)

Loaded(v) == [error |-> "none", value |-> v]
Failed(e) == [error |-> e, value |-> Null]
NotLoaded == [error |-> "pending", value |-> Null]

\* faulty variant: the first document is taken as the pipeline spec, the second as
\* the platform spec
_load_compiled_yaml_byOrder(s) ==
    LET docs == SelectSeq(s, IsDict)
    IN  IF docs = <<>> THEN Failed("ValueError")
        ELSE IF Len(docs) = 1 THEN Loaded(docs[1])
        ELSE IF _is_pipeline_spec(docs[1]) /\ _is_platform_spec(docs[2])
             THEN Loaded(Map("pipeline_spec" :> docs[1] @@ "platform_spec" :> docs[2]))
             ELSE Failed("ValueError")

\* lines 58-75; s is what yaml.safe_load_all yields
_load_compiled_yaml(s) ==
    LET docs == SelectSeq(s, IsDict)
        IsPipeline(d) == _is_pipeline_spec(d) /\ ~_is_platform_spec(d)
        pipeline_spec == FirstIndex(docs, IsPipeline)
        platform_spec == FirstIndex(docs, _is_platform_spec)
    IN  IF docs = <<>> THEN Failed("ValueError")
        ELSE IF Len(docs) = 1 THEN Loaded(docs[1])
        ELSE IF pipeline_spec # 0 /\ platform_spec # 0 /\ pipeline_spec # platform_spec
             THEN Loaded(Map("pipeline_spec" :> docs[pipeline_spec]
                             @@ "platform_spec" :> docs[platform_spec]))
             ELSE Failed("ValueError")

-----------------------------------------------------------------------------
(* The image resolver: extract_base_images_from_pipeline_spec,             *)
(* extract_base_images_from_platform_spec and their dispatcher.            *)

Extracted(s) == [error |-> "none", images |-> s]
Raised(e) == [error |-> e, images |-> {}]
NotExtracted == [error |-> "pending", images |-> {}]

\* faulty variant: an executor's image is collected also when it is empty
_images_from_executors_keepsEmpty(executors) ==
    IF ~IsDict(executors) THEN {}
    ELSE { Get(OrEmpty(Get(executors.kv[e], "container")), "image").s :
             e \in {e \in DOMAIN executors.kv :
                      /\ IsDict(executors.kv[e])
                      /\ IsDict(OrEmpty(Get(executors.kv[e], "container")))
                      /\ Has(OrEmpty(Get(executors.kv[e], "container")), "image")} }

\* lines 87-98
_images_from_executors(executors) ==
    IF ~IsDict(executors) THEN {}
    ELSE { Get(OrEmpty(Get(executors.kv[e], "container")), "image").s :
             e \in {e \in DOMAIN executors.kv :
                      /\ IsDict(executors.kv[e])
                      /\ IsDict(OrEmpty(Get(executors.kv[e], "container")))
                      /\ Truthy(Get(OrEmpty(Get(executors.kv[e], "container")),
                                    "image"))} }

\* lines 101-138
extract_base_images_from_pipeline_spec(pipeline_spec) ==
    IF ~IsDict(pipeline_spec) THEN Raised("ValueError")
    ELSE
    LET deployment_spec == OrEmpty(Get(pipeline_spec, "deploymentSpec"))
    IN  IF ~IsDict(deployment_spec) THEN Raised("AttributeError")
        ELSE
        LET executors == OrEmpty(Get(deployment_spec, "executors"))
            root == OrEmpty(Get(pipeline_spec, "root"))
            dag == OrEmpty(Get(IF IsDict(root) THEN root ELSE EmptyMap, "dag"))
            tasks == OrEmpty(Get(IF IsDict(dag) THEN dag ELSE EmptyMap, "tasks"))
            component_ref(t) == OrEmpty(Get(tasks.kv[t], "componentRef"))
            task_images ==
                IF ~IsDict(tasks) THEN {}
                ELSE { Get(component_ref(t), "image").s :
                         t \in {t \in DOMAIN tasks.kv :
                                  /\ IsDict(tasks.kv[t])
                                  /\ IsDict(component_ref(t))
                                  /\ Truthy(Get(component_ref(t), "image"))} }
            components == OrEmpty(Get(pipeline_spec, "components"))
            executor_label(c) == Get(components.kv[c], "executorLabel")
            labelled ==
                IF ~(IsDict(components) /\ IsDict(executors)) THEN {}
                ELSE {c \in DOMAIN components.kv :
                        /\ IsDict(components.kv[c])
                        /\ Truthy(executor_label(c))
                        /\ Has(executors, executor_label(c).s)}
            labelled_executor(c) == OrEmpty(executors.kv[executor_label(c).s])
            container(c) == OrEmpty(Get(labelled_executor(c), "container"))
            component_images ==
                { Get(container(c), "image").s :
                    c \in {c \in labelled : /\ IsDict(container(c))
                                            /\ Truthy(Get(container(c), "image"))} }
        IN  IF \E c \in labelled : ~IsDict(labelled_executor(c))
            THEN Raised("AttributeError")
            ELSE Extracted(_images_from_executors(executors) \cup task_images
                        \cup component_images)

\* lines 141-158
extract_base_images_from_platform_spec(platform_spec) ==
    IF ~IsDict(platform_spec) THEN {}
    ELSE
    LET platforms == OrEmpty(Get(platform_spec, "platforms"))
        deployment_spec(p) == OrEmpty(Get(platforms.kv[p], "deploymentSpec"))
        executors(p) ==
            OrEmpty(Get(IF IsDict(deployment_spec(p)) THEN deployment_spec(p)
                        ELSE EmptyMap, "executors"))
    IN  IF ~IsDict(platforms) THEN {}
        ELSE UNION { _images_from_executors(executors(p)) :
                       p \in {p \in DOMAIN platforms.kv : IsDict(platforms.kv[p])} }

\* faulty variant: the platform spec of a pair is not read
get_base_images_from_compile_result_primaryOnly(compile_result) ==
    IF ~IsDict(compile_result) THEN Extracted({})
    ELSE IF Has(compile_result, "pipeline_spec") /\ Has(compile_result, "platform_spec")
    THEN extract_base_images_from_pipeline_spec(Get(compile_result, "pipeline_spec"))
    ELSE extract_base_images_from_pipeline_spec(compile_result)

\* lines 161-172
get_base_images_from_compile_result(compile_result) ==
    IF ~IsDict(compile_result) THEN Extracted({})
    ELSE IF Has(compile_result, "pipeline_spec") /\ Has(compile_result, "platform_spec")
    THEN LET pipeline_images ==
                 extract_base_images_from_pipeline_spec(Get(compile_result, "pipeline_spec"))
             platform_images ==
                 extract_base_images_from_platform_spec(Get(compile_result, "platform_spec"))
         IN  IF pipeline_images.error # "none" THEN pipeline_images
             ELSE Extracted(pipeline_images.images \cup platform_images)
    ELSE extract_base_images_from_pipeline_spec(compile_result)

-----------------------------------------------------------------------------
(* The compiled documents the loader and the resolver are run on *)

Executor(img) == Map("container" :> Map("image" :> Str(img)))
Deployment(execs) == Map("executors" :> Map(execs))
TaskRef(img) == Map("componentRef" :> Map("image" :> Str(img)))

\* an executor, and a component that names it
DocComponent ==
    Map("deploymentSpec" :> Deployment("e1" :> Executor("a"))
        @@ "components" :> Map("c1" :> Map("executorLabel" :> Str("e1"))
                               @@ "c2" :> Map("executorLabel" :> Str("e9"))))

\* tasks that reference an image directly or a component by name
DocTasks ==
    Map("root" :> Map("dag" :> Map("tasks" :>
            Map("t1" :> TaskRef("b")
                @@ "t2" :> Map("componentRef" :> Map("name" :> Str("c1")))))))

\* an image twice, an empty image, an executor without container, images elsewhere
DocMixed ==
    Map("deploymentSpec" :> Deployment("e1" :> Executor("a") @@ "e2" :> Executor("")
                                       @@ "e3" :> Map("image" :> Str("c"))
                                       @@ "e4" :> Null)
        @@ "root" :> Map("dag" :> Map("tasks" :>
               Map("t1" :> Map("componentRef" :> Map("image" :> Str("a"))
                               @@ "image" :> Str("c"))))
                         @@ "image" :> Str("c"))
        @@ "image" :> Str("c"))

\* two executors; a "platforms" key that is no mapping
DocTwoExecutors ==
    Map("deploymentSpec" :> Deployment("e1" :> Executor("a") @@ "e2" :> Executor("b"))
        @@ "platforms" :> Null)

\* sections that are no mappings
DocOddShapes ==
    Map("root" :> Str("x")
        @@ "deploymentSpec" :> Map("executors" :> List(<<Str("a")>>))
        @@ "components" :> Map("c1" :> Map("executorLabel" :> Str("e1"))))

PlatformOne ==
    Map("platforms" :> Map("k8s" :> Map("deploymentSpec" :>
                                          Deployment("e2" :> Executor("c")))))

PlatformTwo ==
    Map("platforms" :>
          Map("k8s" :> Map("deploymentSpec" :> Deployment("e1" :> Executor("a")
                                                          @@ "e2" :> Executor("")))
              @@ "gcp" :> Map("deploymentSpec" :> Deployment("e3" :> Executor("d")))
              @@ "none" :> Null
              @@ "bare" :> Map("deploymentSpec" :> Str("x"))))

\* a "platforms" mapping next to a deploymentSpec
PlatformAndDeployment ==
    Map("platforms" :> EmptyMap
        @@ "deploymentSpec" :> Deployment("e1" :> Executor("b")))

\* a mapping of neither kind
DocOther == Map("components" :> Map("c1" :> Map("executorLabel" :> Str("e1"))))

PrimaryDocs == {DocComponent, DocTasks, DocMixed, DocTwoExecutors, DocOddShapes}
PlatformDocs == {PlatformOne, PlatformTwo, PlatformAndDeployment}
Docs == PrimaryDocs \cup PlatformDocs \cup {DocOther, Null, List(<<Str("a")>>)}

Streams == UNION {[1..n -> Docs] : n \in 0..MaxDocs}

(* Compiled documents whose nested values have other shapes than a mapping *)

DocDeploymentStr == Map("deploymentSpec" :> Str("x"))
DocDeploymentList == Map("deploymentSpec" :> List(<<Str("a")>>))

\* a component whose executorLabel names an executor that is a string
DocExecutorStr ==
    Map("deploymentSpec" :> Deployment("e1" :> Str("x"))
        @@ "components" :> Map("c1" :> Map("executorLabel" :> Str("e1"))))

DocNullSections ==
    Map("root" :> Map("dag" :> Null) @@ "deploymentSpec" :> Null
        @@ "components" :> Str("x"))

AnyShapeDocs ==
    { DocDeploymentStr, DocDeploymentList, DocExecutorStr, DocNullSections,
      DocOddShapes, DocComponent, PlatformOne, Null }

AnyShapeStreams == UNION {[1..n -> AnyShapeDocs] : n \in 0..MaxDocs}

CompilerIdle == stream = <<>> /\ ir_yaml = NotLoaded /\ extracted = NotExtracted

\* compile_and_get_yaml, line 98: the compiled stream is read back
LoadCompiledYaml ==
    /\ ir_yaml = NotLoaded
    /\ ir_yaml' = _load_compiled_yaml(stream)
    /\ UNCHANGED <<stream, extracted>>

\* _compile_asset_images, line 258: the images of a compile result
GetBaseImages ==
    /\ ir_yaml.error = "none"
    /\ extracted = NotExtracted
    /\ extracted' = get_base_images_from_compile_result(ir_yaml.value)
    /\ UNCHANGED <<stream, ir_yaml>>

-----------------------------------------------------------------------------
(* check_base_image_tags: the asset files under the directories are        *)
(* compiled one by one and the resolved images under the prefix are        *)
(* compared with the expected tag.  What loading and compiling a file      *)
(* does is the file's own: a load that fails or succeeds, and for every    *)
(* decorated function a compilation that fails or resolves a set of images.*)

MaxAssets == 2

\* ord(c) of the characters of paths and images
Ord(c) ==
    CASE c = "-" -> 45 [] c = "/" -> 47 [] c = "_" -> 95 [] c = "1" -> 49 [] c = "2" -> 50
      [] c = "3" -> 51 [] c = ":" -> 58 [] c = "a" -> 97 [] c = "b" -> 98
      [] c = "c" -> 99 [] c = "i" -> 105 [] c = "m" -> 109 [] c = "n" -> 110
      [] c = "p" -> 112 [] c = "q" -> 113 [] c = "r" -> 114

\* a < b for str
RECURSIVE StrLess(_, _)
StrLess(a, b) ==
    IF b = <<>> THEN FALSE
    ELSE IF a = <<>> THEN TRUE
    ELSE IF Head(a) = Head(b) THEN StrLess(Tail(a), Tail(b))
    ELSE Ord(Head(a)) < Ord(Head(b))

\* sorted(S) for a set of str
RECURSIVE SortedStrs(_)
SortedStrs(S) ==
    IF S = {} THEN <<>>
    ELSE LET m == CHOOSE x \in S : \A y \in S \ {x} : StrLess(x, y)
         IN  <<m>> \o SortedStrs(S \ {m})

\* faulty variant: the candidate files stay in discovery order
SortedByPath_keepsOrder(s) == s

\* list.sort(key=lambda x: str(x[1])): stable, by path
RECURSIVE SortedByPath(_)
SortedByPath(s) ==
    IF s = <<>> THEN <<>>
    ELSE LET i == Min({k \in 1..Len(s) : \A j \in 1..Len(s) : ~StrLess(s[j].path, s[k].path)})
         IN  <<s[i]>> \o SortedByPath(Without(s, i))

\* dir_path.rglob(name): the files of a kind under a directory
RECURSIVE rglob(_, _, _)
rglob(files, d, kind) ==
    IF files = <<>> THEN <<>>
    ELSE (IF Head(files).dir = d /\ Head(files).asset_type = kind
          THEN <<Head(files)>> ELSE <<>>) \o rglob(Tail(files), d, kind)

\* lines 225-234; fs is the file system, dirs the directories argument
_discover_candidate_asset_files(fs, dirs) ==
    LET Found(d) == IF d \notin fs.existing THEN <<>>
                    ELSE rglob(fs.files, d, "component") \o rglob(fs.files, d, "pipeline")
    IN  SortedByPath(Concat([i \in 1..Len(dirs) |-> Found(dirs[i])]))

\* re.sub(r"\W+", "_", s): every run of non-word characters becomes one "_"
RECURSIVE ReSubNonWord(_)
ReSubNonWord(s) ==
    IF s = <<>> THEN <<>>
    ELSE IF Head(s) \in WordChars THEN <<Head(s)>> \o ReSubNonWord(Tail(s))
    ELSE IF Len(s) > 1 /\ s[2] \notin WordChars THEN ReSubNonWord(Tail(s))
    ELSE <<"_">> \o ReSubNonWord(Tail(s))

\* str.isidentifier for a text of word characters
isidentifier(name) ==
    name # <<>> /\ Head(name) \notin {"0","1","2","3","4","5","6","7","8","9"}

ModulePrefix ==
    <<"c","h","e","c","k","_","b","a","s","e","_","i","m","a","g","e","_",
      "t","a","g","s","_">>

AssetTypeText(asset_type) ==
    IF asset_type = "component" THEN <<"c","o","m","p","o","n","e","n","t">>
    ELSE <<"p","i","p","e","l","i","n","e">>

\* lines 218-222
_sanitize_module_name(asset_file, asset_type) ==
    LET name == ReSubNonWord(ModulePrefix \o AssetTypeText(asset_type) \o <<"_">>
                             \o asset_file)
    IN  IF isidentifier(name) THEN name ELSE <<"m", "_">> \o name

\* the k-th name of dir(module) that holds a decorated function
FuncName(k) == <<"f">> \o (CASE k = 1 -> <<"1">> [] k = 2 -> <<"2">> [] k = 3 -> <<"3">>
                             [] OTHER -> <<"4">>)

\* line 250, relative to tmpdir
OutputPath(module_name, func_name) ==
    module_name \o <<"_">> \o func_name \o <<".", "y", "a", "m", "l">>

\* lines 237-259: None, a set of images, BaseImageTagCheckError, or the exception of
\* the resolver (line 258 is outside the try); outputs are the compilations made
_compile_asset_images(asset_file) ==
    LET functions == asset_file.functions
        module_name == _sanitize_module_name(asset_file.path, asset_file.asset_type)
        failing == {k \in 1..Len(functions) :
                      ~functions[k].compiles \/ ~functions[k].resolves}
        last == IF failing = {} THEN Len(functions) ELSE Min(failing)
        outputs == [k \in 1..last |->
                      [file |-> asset_file.path, func_name |-> FuncName(k),
                       output_path |-> OutputPath(module_name, FuncName(k))]]
    IN  IF ~asset_file.loads
        THEN [error |-> "Failed to load module", is_none |-> FALSE, images |-> {},
              outputs |-> <<>>]
        ELSE IF functions = <<>>
        THEN [error |-> "none", is_none |-> TRUE, images |-> {}, outputs |-> <<>>]
        ELSE IF failing # {} /\ ~functions[last].compiles
        THEN [error |-> "Compilation failed for function", is_none |-> FALSE,
              images |-> {}, outputs |-> outputs]
        ELSE IF failing # {}
        THEN [error |-> "AttributeError", is_none |-> FALSE, images |-> {},
              outputs |-> outputs]
        ELSE [error |-> "none", is_none |-> FALSE,
              images |-> UNION {functions[k].images : k \in 1..Len(functions)},
              outputs |-> outputs]

\* the compilations of one file, made while the scratch directory is in state dir
Compiled(compiled, dir) ==
    [k \in 1..Len(compiled.outputs) |->
       [file |-> compiled.outputs[k].file, func_name |-> compiled.outputs[k].func_name,
        output_path |-> compiled.outputs[k].output_path, tmpdir |-> dir]]

\* faulty variant: the prefix is compared without the dash
ImageRecords_prefixWithoutDash(asset_file, images, args) ==
    LET checked == SortedStrs({img \in images : StartsWith(img, args.image_prefix)})
    IN  [i \in 1..Len(checked) |->
           IF EndsWith(checked[i], <<":">> \o args.expected_tag)
           THEN [file |-> asset_file.path, line_num |-> 0, status |-> "valid"]
           ELSE [file |-> asset_file.path, line_num |-> 0, status |-> "invalid",
                 found |-> checked[i],
                 expected |-> args.image_prefix \o <<"-", "<", "n", "a", "m", "e", ">", ":">>
                              \o args.expected_tag]]

\* lines 298-310: the records of the images of one file
ImageRecords(asset_file, images, args) ==
    LET prefix_with_dash == args.image_prefix \o <<"-">>
        expected_suffix == <<":">> \o args.expected_tag
        checked == SortedStrs({img \in images : StartsWith(img, prefix_with_dash)})
    IN  [i \in 1..Len(checked) |->
           IF EndsWith(checked[i], expected_suffix)
           THEN [file |-> asset_file.path, line_num |-> 0, status |-> "valid"]
           ELSE [file |-> asset_file.path, line_num |-> 0, status |-> "invalid",
                 found |-> checked[i],
                 expected |-> args.image_prefix \o <<"-", "<", "n", "a", "m", "e", ">", ":">>
                              \o args.expected_tag]]

\* lines 277-281
Discover ==
    /\ check_pc = "discover"
    /\ candidate_files' = _discover_candidate_asset_files(tree, check_args.directories)
    /\ IF candidate_files' = <<>>
       THEN /\ check_pc' = "done" /\ all_valid' = "True"
            /\ UNCHANGED <<tmpdir, tmpdirs_made>>
       ELSE /\ check_pc' = "loop" /\ UNCHANGED all_valid
            /\ tmpdir' = "exists" /\ tmpdirs_made' = tmpdirs_made + 1
    /\ UNCHANGED <<check_args, tree, cursor, results, compiled_to>>

\* faulty variant: the loop ends at the first file that fails
CheckAsset_stopsOnError ==
    /\ check_pc = "loop"
    /\ cursor <= Len(candidate_files)
    /\ LET asset_file == candidate_files[cursor]
           compiled == _compile_asset_images(asset_file)
       IN  IF compiled.error # "none"
           THEN /\ results' = Append(results,
                                 [file |-> asset_file.path, line_num |-> 0,
                                  status |-> "invalid", error |-> compiled.error])
                /\ cursor' = Len(candidate_files) + 1
           ELSE /\ results' = IF compiled.is_none THEN results
                              ELSE results \o ImageRecords(asset_file, compiled.images,
                                                           check_args)
                /\ cursor' = cursor + 1
    /\ UNCHANGED <<check_args, tree, candidate_files, all_valid, check_pc,
                   tmpdir, tmpdirs_made, compiled_to>>

\* faulty variant: every file gets a scratch directory of its own
CheckAsset_scratchPerFile ==
    /\ check_pc = "loop"
    /\ cursor <= Len(candidate_files)
    /\ LET asset_file == candidate_files[cursor]
           compiled == _compile_asset_images(asset_file)
       IN  /\ compiled_to' = compiled_to \o Compiled(compiled, tmpdir)
           /\ IF compiled.error = "AttributeError"
              THEN /\ check_pc' = "raised"
                   /\ tmpdir' = "removed"
                   /\ UNCHANGED <<results, cursor>>
              ELSE /\ results' =
                        IF compiled.error # "none"
                        THEN Append(results, [file |-> asset_file.path, line_num |-> 0,
                                              status |-> "invalid",
                                              error |-> compiled.error])
                        ELSE IF compiled.is_none THEN results
                        ELSE results \o ImageRecords(asset_file, compiled.images,
                                                     check_args)
                   /\ cursor' = cursor + 1
                   /\ UNCHANGED <<check_pc, tmpdir>>
    /\ tmpdirs_made' = tmpdirs_made + 1
    /\ UNCHANGED <<check_args, tree, candidate_files, all_valid>>

\* lines 281-310: one iteration of the loop over the candidate files; an exception
\* other than BaseImageTagCheckError leaves the with block and the call
CheckAsset ==
    /\ check_pc = "loop"
    /\ cursor <= Len(candidate_files)
    /\ LET asset_file == candidate_files[cursor]
           compiled == _compile_asset_images(asset_file)
       IN  /\ compiled_to' = compiled_to \o Compiled(compiled, tmpdir)
           /\ IF compiled.error = "AttributeError"
              THEN /\ check_pc' = "raised"
                   /\ tmpdir' = "removed"
                   /\ UNCHANGED <<results, cursor>>
              ELSE /\ results' =
                        IF compiled.error # "none"
                        THEN Append(results, [file |-> asset_file.path, line_num |-> 0,
                                              status |-> "invalid",
                                              error |-> compiled.error])
                        ELSE IF compiled.is_none THEN results
                        ELSE results \o ImageRecords(asset_file, compiled.images,
                                                     check_args)
                   /\ cursor' = cursor + 1
                   /\ UNCHANGED <<check_pc, tmpdir>>
    /\ UNCHANGED <<check_args, tree, candidate_files, all_valid, tmpdirs_made>>

\* faulty variant: a run without records does not pass
Aggregate_emptyFails ==
    /\ check_pc = "loop"
    /\ cursor > Len(candidate_files)
    /\ all_valid' = IF results # <<>> /\ \A i \in 1..Len(results) : results[i].status = "valid"
                    THEN "True" ELSE "False"
    /\ check_pc' = "done"
    /\ tmpdir' = "removed"
    /\ UNCHANGED <<check_args, tree, candidate_files, cursor, results, tmpdirs_made,
                   compiled_to>>

\* lines 281 (leaving the with block) and 312-313
Aggregate ==
    /\ check_pc = "loop"
    /\ cursor > Len(candidate_files)
    /\ all_valid' = IF results = <<>> THEN "True"
                    ELSE IF \A i \in 1..Len(results) : results[i].status = "valid"
                         THEN "True" ELSE "False"
    /\ check_pc' = "done"
    /\ tmpdir' = "removed"
    /\ UNCHANGED <<check_args, tree, candidate_files, cursor, results, tmpdirs_made,
                   compiled_to>>

(* The asset files and arguments of the check *)

ValNoDash == <<"r", "a">> \o MAIN
Compiles(imgs) == [compiles |-> TRUE, resolves |-> TRUE, images |-> imgs]
CompileFails == [compiles |-> FALSE, resolves |-> TRUE, images |-> {}]
\* the compiled document makes the resolver raise
ResolveRaises == [compiles |-> TRUE, resolves |-> FALSE, images |-> {}]

\* what loading a file and compiling its decorated functions does
Behaviours ==
    { [loads |-> FALSE, functions |-> <<>>],
      [loads |-> TRUE, functions |-> <<>>],
      [loads |-> TRUE, functions |-> <<Compiles({ValA})>>],
      [loads |-> TRUE, functions |-> <<Compiles({ValT})>>],
      [loads |-> TRUE, functions |-> <<Compiles({ValQ, ValNoDash})>>],
      [loads |-> TRUE, functions |-> <<Compiles({ValA, ValT}), Compiles({ValA, ValB})>>],
      [loads |-> TRUE, functions |-> <<Compiles({ValA, ValT}), CompileFails>>],
      [loads |-> TRUE, functions |-> <<Compiles({ValA}), ResolveRaises>>] }

Placements ==
    { [dir |-> "c", asset_type |-> "component"],
      [dir |-> "c", asset_type |-> "pipeline"],
      [dir |-> "p", asset_type |-> "pipeline"] }

Digit(n) == CASE n = 1 -> "1" [] n = 2 -> "2" [] n = 3 -> "3"

\* the n-th file of the tree: <dir>/<n>/component.py or <dir>/<n>/pipeline.py
AssetFile(n, where, b) ==
    [path |-> <<where.dir, "/", Digit(n), "/",
                IF where.asset_type = "component" THEN "c" ELSE "p">>,
     dir |-> where.dir, asset_type |-> where.asset_type,
     loads |-> b.loads, functions |-> b.functions]

Trees ==
    { [existing |-> {"c", "p"},
       files |-> [n \in 1..k |-> AssetFile(n, w[n], b[n])]] :
        <<k, w, b>> \in UNION { {k} \X [1..k -> Placements] \X [1..k -> Behaviours] :
                                k \in 0..MaxAssets } }

DirectoryLists == { <<"c">>, <<"x">>, <<"p", "c">>, <<"c", "x", "p">>, <<>> }

CheckArgs ==
    { [directories |-> d, image_prefix |-> <<"r">>, expected_tag |-> t] :
        d \in DirectoryLists, t \in { <<"m", "a", "i", "n">>, <<"1">> } }

NoArgs == [directories |-> <<>>, image_prefix |-> <<>>, expected_tag |-> <<>>]
NoTree == [existing |-> {}, files |-> <<>>]

\* asset files in directories whose names differ in non-word characters only:
\* c/1/, c/1-2/, c/1_2/ and c/1/2/
DirNames == { <<"1">>, <<"1", "-", "2">>, <<"1", "_", "2">>, <<"1", "/", "2">> }

NamedFile(where, name, b) ==
    [path |-> <<where.dir, "/">> \o name
              \o <<"/", IF where.asset_type = "component" THEN "c" ELSE "p">>,
     dir |-> where.dir, asset_type |-> where.asset_type,
     loads |-> b.loads, functions |-> b.functions]

NamedBehaviours ==
    { [loads |-> TRUE, functions |-> <<Compiles({ValA})>>],
      [loads |-> TRUE, functions |-> <<Compiles({ValA, ValT}), Compiles({ValA, ValB})>>],
      [loads |-> TRUE, functions |-> <<Compiles({ValA, ValT}), CompileFails>>] }

NamedFiles ==
    { NamedFile([dir |-> "c", asset_type |-> t], n, b) :
        t \in {"component", "pipeline"}, n \in DirNames, b \in NamedBehaviours }

\* a file system holds a path once
NamedTrees ==
    { [existing |-> {"c", "p"}, files |-> fs] :
        fs \in { s \in UNION {[1..k -> NamedFiles] : k \in 0..MaxAssets} :
                   \A i, j \in 1..Len(s) : i # j => s[i].path # s[j].path } }

CheckIdle ==
    /\ check_args = NoArgs /\ tree = NoTree /\ candidate_files = <<>> /\ cursor = 0
    /\ results = <<>> /\ all_valid = "unset" /\ check_pc = "idle"
    /\ tmpdir = "none" /\ tmpdirs_made = 0 /\ compiled_to = <<>>

-----------------------------------------------------------------------------
(* load_base_image_allowlist: the parsed allowlist document is validated   *)
(* and turned into a policy.                                               *)

MaxItems == 2

\* the regex strings re.compile rejects with re.error
BadRegex == {"(", "*a"}

\* re.compile(p): the compiled pattern, or re.error
re_compile(p) ==
    IF p \in BadRegex THEN [error |-> "re.error", pattern |-> ""]
    ELSE [error |-> "none", pattern |-> p]

\* isinstance(v, list) and all(isinstance(x, str) for x in v)
IsListOfStr(v) == v.t = "list" /\ \A i \in 1..Len(v.items) : v.items[i].t = "str"

\* d.get(k, default)
GetOr(d, k, default) == IF k \in DOMAIN d.kv THEN d.kv[k] ELSE default

NoPolicy == [allowed_images |-> {}, allowed_image_patterns |-> <<>>]
Policy(p) == [error |-> "none", policy |-> p]
NotPolicy(e) == [error |-> e, policy |-> NoPolicy]
NotCalled == [error |-> "pending", policy |-> NoPolicy]

\* faulty variant: a pattern that does not compile is left out of the policy
load_base_image_allowlist_skipsBadRegex(parsed) ==
    LET data == IF parsed = Null THEN EmptyMap ELSE parsed
    IN  IF ~IsDict(data) THEN NotPolicy("ValueError")
        ELSE
        LET allowed_images_raw == GetOr(data, "allowed_images", List(<<>>))
            allowed_patterns_raw == GetOr(data, "allowed_image_patterns", List(<<>>))
        IN  IF ~IsListOfStr(allowed_images_raw) THEN NotPolicy("ValueError")
            ELSE IF ~IsListOfStr(allowed_patterns_raw) THEN NotPolicy("ValueError")
            ELSE
            LET good == SelectSeq(allowed_patterns_raw.items,
                                  LAMBDA x : re_compile(x.s).error = "none")
            IN  Policy([allowed_images |->
                          {allowed_images_raw.items[i].s :
                             i \in 1..Len(allowed_images_raw.items)},
                        allowed_image_patterns |->
                          [i \in 1..Len(good) |-> re_compile(good[i].s)]])

\* lines 47-69; parsed is what yaml.safe_load returns
load_base_image_allowlist(parsed) ==
    LET data == IF parsed = Null THEN EmptyMap ELSE parsed
    IN  IF ~IsDict(data) THEN NotPolicy("ValueError")
        ELSE
        LET allowed_images_raw == GetOr(data, "allowed_images", List(<<>>))
            allowed_patterns_raw == GetOr(data, "allowed_image_patterns", List(<<>>))
        IN  IF ~IsListOfStr(allowed_images_raw) THEN NotPolicy("ValueError")
            ELSE IF ~IsListOfStr(allowed_patterns_raw) THEN NotPolicy("ValueError")
            ELSE
            LET patterns == [i \in 1..Len(allowed_patterns_raw.items) |->
                               re_compile(allowed_patterns_raw.items[i].s)]
            IN  IF \E i \in 1..Len(patterns) : patterns[i].error # "none"
                THEN NotPolicy("ValueError")
                ELSE Policy([allowed_images |->
                               {allowed_images_raw.items[i].s :
                                  i \in 1..Len(allowed_images_raw.items)},
                             allowed_image_patterns |-> patterns])

(* The allowlist documents *)

Absent == [t |-> "absent"]

ListsOf(items) == { List(s) : s \in UNION {[1..n -> items] : n \in 0..MaxItems} }

ImageEntries == ListsOf({Str("a"), Str("b"), Null}) \cup {Absent, Null, Str("a")}

PatternEntries ==
    ListsOf({Str("a"), Str("a.*"), Str("("), Null}) \cup {Absent, Null, Str("a.*")}

AllowlistDoc(imgs, pats) ==
    LET val == [k \in {"allowed_images", "allowed_image_patterns", "other"} |->
                  CASE k = "allowed_images" -> imgs
                    [] k = "allowed_image_patterns" -> pats
                    [] k = "other" -> Absent]
    IN  Map([k \in {k \in DOMAIN val : val[k] # Absent} |-> val[k]])

AllowlistDocs ==
    { AllowlistDoc(imgs, pats) : imgs \in ImageEntries, pats \in PatternEntries }
    \cup {Null, Str("a"), List(<<Str("a")>>)}

LoaderIdle == allowlist_data = Null /\ loaded_allowlist = NotCalled /\ loader_pc = "idle"

LoadAllowlist ==
    /\ loader_pc = "load"
    /\ loaded_allowlist' = load_base_image_allowlist(allowlist_data)
    /\ loader_pc' = "done"
    /\ UNCHANGED allowlist_data

-----------------------------------------------------------------------------
(* override_base_images: the rewriter applied to every *.py file under a   *)
(* list of directories.  One call of override_file_images is one step of   *)
(* the loop; its effect on the file is computed from the file's content.   *)

MaxBatchFiles == 3

\* lines 339-350: the edits of one call, in processing order
RECURSIVE ApplyEdits(_, _, _)
ApplyEdits(buf, todo, tag) ==
    IF todo = <<>> THEN [error |-> "none", lines |-> buf]
    ELSE LET bi == Head(todo)
         IN  IF bi.start_line # bi.end_line
             THEN [error |-> "ValueError", lines |-> buf]
             ELSE IF bi.start_line > Len(buf) \/ bi.start_col >= Len(buf[bi.start_line])
             THEN [error |-> "IndexError", lines |-> buf]
             ELSE ApplyEdits([buf EXCEPT ![bi.start_line] =
                                 NewLine(buf[bi.start_line], bi, tag)],
                             Tail(todo), tag)

\* lines 316-355 as a function of the file's content: the outcome, was_modified and
\* the content left on disk
override_file_images(bytes, tag, prefix, dry) ==
    IF ~ValidTag(tag)
    THEN [outcome |-> "ValueError", was_modified |-> FALSE, disk |-> bytes]
    ELSE
    LET r == get_base_image_locations(bytes)
    IN  IF r.error # "none"
        THEN [outcome |-> r.error, was_modified |-> FALSE, disk |-> bytes]
        ELSE
        LET keep(bi) == IsCandidate(bi, prefix)
            todo == SelectSeq(r.locs, keep)
        IN  IF todo = <<>>
            THEN [outcome |-> "returned", was_modified |-> FALSE, disk |-> bytes]
            ELSE
            LET e == ApplyEdits(SplitLines(ReadText(bytes)), SortedDescending(todo), tag)
            IN  IF e.error # "none"
                THEN [outcome |-> e.error, was_modified |-> FALSE, disk |-> bytes]
                ELSE [outcome |-> "returned", was_modified |-> TRUE,
                      disk |-> IF dry THEN bytes ELSE WriteText(Concat(e.lines))]

(* The trees the batch is run on *)

\* a path below a root directory
BatchPath(root, rel, suffix) == [root |-> root, rel |-> rel, suffix |-> suffix]

BatchPaths ==
    { BatchPath("c", "a", ".py"), BatchPath("c", "s/b", ".py"),
      BatchPath("c", "n", ".txt"), BatchPath("p", "p", ".py") }

\* the directories that exist; "x" does not
ExistingDirs == {"c", "p"}

FileMain == Render(<< <<"B">> \o Lit(<<DQ>>, ValA) \o <<",", "x">> >>, <<LF>>)
FileTwo == Render(<< <<"B">> \o Lit(<<DQ>>, ValA) \o <<"B">> \o Lit(<<SQ>>, ValB) >>, <<LF>>)
FileNonMatching == Render(<< <<"B">> \o Lit(<<DQ>>, ValQ) >>, <<LF>>)
FileTagged == Render(<< <<"B">> \o Lit(<<SQ>>, ValT) >>, <<LF>>)

\* files on which override_file_images raises: a base_image that is not a literal,
\* and a candidate that spans two lines
FileNonLiteral == Render(<< <<"B", "v">> >>, <<LF>>)
FileMultiLine ==
    Render(<< <<"B">> \o Lit(<<DQ>>, <<"r", "-", "a">>), Lit(<<DQ>>, MAIN) >>, <<LF>>)

BatchContents ==
    {FileMain, FileTwo, FileNonMatching, FileTagged, FileNonLiteral, FileMultiLine}

ContentsOf(path) == IF path.suffix = ".py" THEN BatchContents ELSE {FileMain}

BatchTrees ==
    UNION { { t \in [S -> BatchContents] : \A f \in S : t[f] \in ContentsOf(f) } :
              S \in {S \in SUBSET BatchPaths : Cardinality(S) <= MaxBatchFiles} }

BatchDirectoryLists ==
    { <<"c">>, <<"x">>, <<"c", "p">>, <<"x", "p", "c">>, <<"c", "c">>, <<>> }

BatchArgs ==
    [directories : BatchDirectoryLists, container_tag : {<<"1">>, <<"1", "-">>},
     image_prefix : Prefixes, dry_run : BOOLEAN]

NoBatchArgs ==
    [directories |-> <<>>, container_tag |-> <<>>, image_prefix |-> <<>>,
     dry_run |-> FALSE]

NoBatchTree == [f \in {} |-> <<>>]

\* dir_path.rglob("*.py") (line 384)
rglob_py(fs, directory) ==
    {f \in DOMAIN fs : f.root = directory /\ f.suffix = ".py"}

BatchIdle ==
    /\ batch_args = NoBatchArgs
    /\ batch_fs = NoBatchTree
    /\ batch_fs0 = NoBatchTree
    /\ dir_cursor = 1
    /\ pending = {}
    /\ modified_files = <<>>
    /\ reports = <<>>
    /\ batch_pc = "idle"

\* lines 379-384: the generator moves to the next directory
NextDirectory ==
    /\ batch_pc = "iterate"
    /\ pending = {}
    /\ dir_cursor <= Len(batch_args.directories)
    /\ LET directory == batch_args.directories[dir_cursor]
       IN  pending' = IF directory \notin ExistingDirs THEN {}
                      ELSE rglob_py(batch_fs, directory)
    /\ dir_cursor' = dir_cursor + 1
    /\ UNCHANGED <<batch_args, batch_fs, batch_fs0, modified_files, reports, batch_pc>>

\* faulty variant: a dry run reports no file
OverrideFile_silentDryRun ==
    /\ batch_pc = "iterate"
    /\ \E py_file \in pending :
         LET r == override_file_images(batch_fs[py_file], batch_args.container_tag,
                                       batch_args.image_prefix, batch_args.dry_run)
         IN  /\ batch_fs' = [batch_fs EXCEPT ![py_file] = r.disk]
             /\ reports' = Append(reports, [path |-> py_file, outcome |-> r.outcome,
                                            was_modified |-> r.was_modified])
             /\ IF r.outcome # "returned"
                THEN batch_pc' = r.outcome /\ UNCHANGED <<modified_files, pending>>
                ELSE /\ modified_files' =
                          IF r.was_modified /\ ~batch_args.dry_run
                          THEN Append(modified_files, py_file)
                          ELSE modified_files
                     /\ pending' = pending \ {py_file}
                     /\ UNCHANGED batch_pc
    /\ UNCHANGED <<batch_args, batch_fs0, dir_cursor>>

\* faulty variant: a file on which the rewriter raises is skipped
OverrideFile_continuesOnError ==
    /\ batch_pc = "iterate"
    /\ \E py_file \in pending :
         LET r == override_file_images(batch_fs[py_file], batch_args.container_tag,
                                       batch_args.image_prefix, batch_args.dry_run)
         IN  /\ batch_fs' = [batch_fs EXCEPT ![py_file] = r.disk]
             /\ reports' = Append(reports, [path |-> py_file, outcome |-> r.outcome,
                                            was_modified |-> r.was_modified])
             /\ modified_files' =
                  IF r.was_modified THEN Append(modified_files, py_file)
                  ELSE modified_files
             /\ pending' = pending \ {py_file}
             /\ UNCHANGED batch_pc
    /\ UNCHANGED <<batch_args, batch_fs0, dir_cursor>>

\* lines 368-373: one iteration of the loop; rglob yields the files of a directory in
\* the order of the file system
OverrideFile ==
    /\ batch_pc = "iterate"
    /\ \E py_file \in pending :
         LET r == override_file_images(batch_fs[py_file], batch_args.container_tag,
                                       batch_args.image_prefix, batch_args.dry_run)
         IN  /\ batch_fs' = [batch_fs EXCEPT ![py_file] = r.disk]
             /\ reports' = Append(reports, [path |-> py_file, outcome |-> r.outcome,
                                            was_modified |-> r.was_modified])
             /\ IF r.outcome # "returned"
                THEN batch_pc' = r.outcome /\ UNCHANGED <<modified_files, pending>>
                ELSE /\ modified_files' =
                          IF r.was_modified THEN Append(modified_files, py_file)
                          ELSE modified_files
                     /\ pending' = pending \ {py_file}
                     /\ UNCHANGED batch_pc
    /\ UNCHANGED <<batch_args, batch_fs0, dir_cursor>>

\* line 375
ReturnModified ==
    /\ batch_pc = "iterate"
    /\ pending = {}
    /\ dir_cursor > Len(batch_args.directories)
    /\ batch_pc' = "returned"
    /\ UNCHANGED <<batch_args, batch_fs, batch_fs0, dir_cursor, pending,
                   modified_files, reports>>

-----------------------------------------------------------------------------
(* find_decorated_functions_runtime: the decorated functions of a loaded   *)
(* module.  A module is a function from attribute names to values; a value *)
(* is None or an object with its own attributes.                           *)

MaxAttrs == 2

PyObj(is_callable, attrs) == [t |-> "obj", callable |-> is_callable, attrs |-> attrs]

NoAttrs == [k \in {} |-> Null]

\* hasattr(v, k)
hasattr(v, k) == v.t = "obj" /\ k \in DOMAIN v.attrs

\* getattr(v, k, None)
getattr(v, k) == IF hasattr(v, k) THEN v.attrs[k] ELSE Null

\* callable(v)
callable(v) == v.t = "obj" /\ v.callable

\* lines 117-120
is_component(attr) ==
    \/ hasattr(attr, "component_spec")
    \/ /\ getattr(attr, "__wrapped__") # Null
       /\ hasattr(getattr(attr, "__wrapped__"), "component_spec")

is_pipeline(attr) ==
    \/ hasattr(attr, "pipeline_spec")
    \/ getattr(attr, "_pipeline_func") # Null

is_match(attr, kind) ==
    \/ kind = "component" /\ is_component(attr)
    \/ kind = "pipeline" /\ is_pipeline(attr)

\* faulty variant: names that begin with an underscore are examined like the others
RECURSIVE FindIn_keepsPrivate(_, _, _)
FindIn_keepsPrivate(module, names, kind) ==
    IF names = <<>> THEN <<>>
    ELSE LET attr_name == Head(names)
             attr == module[attr_name]
             rest == FindIn_keepsPrivate(module, Tail(names), kind)
         IN  IF attr = Null \/ ~callable(attr) THEN rest
             ELSE IF is_match(attr, kind) THEN <<[name |-> attr_name, func |-> attr]>> \o rest
             ELSE rest

\* lines 112-124: the loop over dir(module)
RECURSIVE FindIn(_, _, _)
FindIn(module, names, kind) ==
    IF names = <<>> THEN <<>>
    ELSE LET attr_name == Head(names)
             attr == module[attr_name]
             rest == FindIn(module, Tail(names), kind)
         IN  IF StartsWith(attr_name, <<"_">>) THEN rest
             ELSE IF attr = Null \/ ~callable(attr) THEN rest
             ELSE IF is_match(attr, kind) THEN <<[name |-> attr_name, func |-> attr]>> \o rest
             ELSE rest

\* dir(module) is sorted by name
find_decorated_functions_runtime(module, kind) ==
    FindIn(module, SortedStrs(DOMAIN module), kind)

(* The modules *)

SpecValue == PyObj(FALSE, NoAttrs)
Plain == PyObj(TRUE, NoAttrs)
Component == PyObj(TRUE, "component_spec" :> SpecValue)
WrappedComponent == PyObj(TRUE, "__wrapped__" :> Component)
Pipeline == PyObj(TRUE, "pipeline_spec" :> SpecValue)

Objects ==
    { Null, Plain, Component, WrappedComponent, Pipeline,
      \* not callable, with a component_spec
      PyObj(FALSE, "component_spec" :> SpecValue),
      \* component_spec is None
      PyObj(TRUE, "component_spec" :> Null),
      \* __wrapped__ is None, is plain, or is itself a wrapper of a component
      PyObj(TRUE, "__wrapped__" :> Null),
      PyObj(TRUE, "__wrapped__" :> Plain),
      PyObj(TRUE, "__wrapped__" :> WrappedComponent),
      \* the pipeline markers
      PyObj(TRUE, "_pipeline_func" :> Plain),
      PyObj(TRUE, "_pipeline_func" :> Null),
      PyObj(TRUE, ("component_spec" :> SpecValue) @@ ("pipeline_spec" :> SpecValue)) }

AttrNames == { <<"a">>, <<"b">>, <<"_", "a">>, <<"a", "_">> }

Modules ==
    UNION { [S -> Objects] : S \in {S \in SUBSET AttrNames : Cardinality(S) <= MaxAttrs} }

DecoratorTypes == {"component", "pipeline", "other"}

NoModule == [k \in {} |-> Null]

FinderIdle ==
    /\ loaded_module = NoModule
    /\ decorator_type = "none"
    /\ decorated = <<>>
    /\ finder_pc = "idle"

FindDecorated ==
    /\ finder_pc = "find"
    /\ decorated' = find_decorated_functions_runtime(loaded_module, decorator_type)
    /\ finder_pc' = "done"
    /\ UNCHANGED <<loaded_module, decorator_type>>

-----------------------------------------------------------------------------
(* validate_tag: _TAG_PATTERN.fullmatch over bounded tags *)

\* a character outside ASCII (U+00E9), which \w does not match under re.ASCII
NonAscii == "U+00E9"

\* the positions e at which a match of [\w](?:[\w.-]{0,126}[\w])? that starts at the
\* first character of tag can end
TagPatternEnds(tag) ==
    { e \in 1..Len(tag) :
        /\ tag[1] \in WordChars
        /\ \/ e = 1
           \/ /\ e >= 2
              /\ e - 2 <= MaxTagLen - 2
              /\ \A i \in 2..(e - 1) : tag[i] \in WordChars \cup {".", "-"}
              /\ tag[e] \in WordChars }

\* faulty variant: re.match, which accepts a tag with a valid beginning
validate_tag_prefixMatch(tag) ==
    IF TagPatternEnds(tag) = {} THEN "ValueError" ELSE "returned"

\* lines 15-18
validate_tag(tag) ==
    IF Len(tag) \notin TagPatternEnds(tag) THEN "ValueError" ELSE "returned"

(* The tags: a first, a second and a last character around a run of "a" *)

TagChars == {"a", "Z", "0", "_", ".", "-", ":", " ", LF, NonAscii}

TagLengths == {0, 1, 2, 3, MaxTagLen - 1, MaxTagLen, MaxTagLen + 1}

TagOf(n, first, second, last) ==
    [i \in 1..n |-> IF i = n THEN last
                    ELSE IF i = 1 THEN first
                    ELSE IF i = 2 THEN second
                    ELSE "a"]

TagInputs ==
    { TagOf(n, first, second, last) :
        n \in TagLengths, first \in TagChars, second \in TagChars, last \in TagChars }

TagIdle == tag_arg = <<>> /\ tag_outcome = "idle"

ValidateTag ==
    /\ tag_outcome = "pending"
    /\ tag_outcome' = validate_tag(tag_arg)
    /\ UNCHANGED tag_arg

-----------------------------------------------------------------------------
(* The decorator finders over a parsed source file:                        *)
(* find_decorated_function_names_ast (scripts/lib/kfp_compilation.py) and  *)
(* find_functions_with_decorator (scripts/lib/parsing.py).  A file is      *)
(* given by the outcome of reading and parsing it and by the definitions   *)
(* ast.walk yields; a decorator is an ast expression.                      *)

MaxDecorators == 2

COMPONENT_DECORATORS == {"component", "container_component", "notebook_component"}
PIPELINE_DECORATORS == {"pipeline"}

AstName(id) == [node |-> "Name", id |-> id]
AstAttribute(value, attr) == [node |-> "Attribute", value |-> value, attr |-> attr]
AstCall(func) == [node |-> "Call", func |-> func]
AstSubscript == [node |-> "Subscript"]

NoName == [is_none |-> TRUE, name |-> ""]
SomeName(n) == [is_none |-> FALSE, name |-> n]

\* kfp_compilation.py lines 162-182
extract_decorator_name(decorator) ==
    IF decorator.node = "Name" THEN SomeName(decorator.id)
    ELSE IF decorator.node = "Attribute" THEN SomeName(decorator.attr)
    ELSE IF decorator.node = "Call"
    THEN IF decorator.func.node = "Name" THEN SomeName(decorator.func.id)
         ELSE IF decorator.func.node = "Attribute" THEN SomeName(decorator.func.attr)
         ELSE NoName
    ELSE NoName

\* faulty variant: a later pipeline decorator wins over an earlier component decorator
KindOf_pipelineFirst(decorator_list) ==
    IF \E i \in 1..Len(decorator_list) :
          LET n == extract_decorator_name(decorator_list[i])
          IN  ~n.is_none /\ n.name \in PIPELINE_DECORATORS
    THEN "pipelines"
    ELSE IF \E i \in 1..Len(decorator_list) :
          LET n == extract_decorator_name(decorator_list[i])
          IN  ~n.is_none /\ n.name \in COMPONENT_DECORATORS
    THEN "components"
    ELSE "none"

\* lines 150-157: the list a definition is appended to, decided by its first decorator
\* with a known name
RECURSIVE KindOf(_)
KindOf(decorator_list) ==
    IF decorator_list = <<>> THEN "none"
    ELSE LET decorator_name == extract_decorator_name(Head(decorator_list))
         IN  IF ~decorator_name.is_none /\ decorator_name.name \in COMPONENT_DECORATORS
             THEN "components"
             ELSE IF ~decorator_name.is_none /\ decorator_name.name \in PIPELINE_DECORATORS
             THEN "pipelines"
             ELSE KindOf(Tail(decorator_list))

IsFunctionDef(n) == n.kind \in {"FunctionDef", "AsyncFunctionDef"}

\* the names of the definitions of kind k, in the order of ast.walk
RECURSIVE NamesOfKind(_, _)
NamesOfKind(nodes, k) ==
    IF nodes = <<>> THEN <<>>
    ELSE (IF IsFunctionDef(Head(nodes)) /\ KindOf(Head(nodes).decorator_list) = k
          THEN <<Head(nodes).name>> ELSE <<>>)
         \o NamesOfKind(Tail(nodes), k)

AstResult(e, empty, comps, pipes) ==
    [raised |-> e, is_empty |-> empty, components |-> comps, pipelines |-> pipes]

NoAstResult == AstResult("pending", FALSE, <<>>, <<>>)

\* kfp_compilation.py lines 128-159
find_decorated_function_names_ast(file) ==
    IF ~file.exists THEN AstResult("FileNotFoundError", FALSE, <<>>, <<>>)
    ELSE IF file.parse \in {"SyntaxError", "UnicodeDecodeError"}
    THEN AstResult("none", TRUE, <<>>, <<>>)
    ELSE AstResult("none", FALSE, NamesOfKind(file.nodes, "components"),
                   NamesOfKind(file.nodes, "pipelines"))

\* parsing.py lines 29-66
RECURSIVE is_target_decorator(_, _)
is_target_decorator(decorator, kind) ==
    IF decorator.node = "Attribute"
    THEN /\ decorator.attr = kind
         /\ \/ decorator.value.node = "Name" /\ decorator.value.id = "dsl"
            \/ /\ decorator.value.node = "Attribute"
               /\ decorator.value.attr = "dsl"
               /\ decorator.value.value.node = "Name"
               /\ decorator.value.value.id = "kfp"
    ELSE IF decorator.node = "Call" THEN is_target_decorator(decorator.func, kind)
    ELSE IF decorator.node = "Name" THEN decorator.id = kind
    ELSE FALSE

RECURSIVE NamesWithDecorator(_, _)
NamesWithDecorator(nodes, kind) ==
    IF nodes = <<>> THEN <<>>
    ELSE (IF /\ IsFunctionDef(Head(nodes))
             /\ \E i \in 1..Len(Head(nodes).decorator_list) :
                   is_target_decorator(Head(nodes).decorator_list[i], kind)
          THEN <<Head(nodes).name>> ELSE <<>>)
         \o NamesWithDecorator(Tail(nodes), kind)

WithResult(e, names) == [raised |-> e, functions |-> names]

NoWithResult == WithResult("pending", <<>>)

\* parsing.py lines 15-26 and 81-101
find_functions_with_decorator(file, kind) ==
    IF ~file.exists THEN WithResult("FileNotFoundError", <<>>)
    ELSE IF file.parse # "ok" THEN WithResult(file.parse, <<>>)
    ELSE WithResult("none", NamesWithDecorator(file.nodes, kind))

(* The source files *)

Bases(n) ==
    { AstName(n), AstAttribute(AstName("dsl"), n), AstAttribute(AstName("x"), n),
      AstAttribute(AstAttribute(AstName("kfp"), "dsl"), n) }

Decorators ==
    UNION { Bases(n) : n \in {"component", "notebook_component", "pipeline", "other"} }
    \cup { AstName("container_component"),
           AstCall(AstName("component")),
           AstCall(AstAttribute(AstName("dsl"), "pipeline")),
           AstCall(AstAttribute(AstName("x"), "container_component")),
           AstCall(AstAttribute(AstAttribute(AstName("kfp"), "dsl"), "other")),
           AstCall(AstCall(AstName("component"))),
           AstAttribute(AstName("component"), "other"),
           AstSubscript }

Def(kind, name, decorator_list) ==
    [kind |-> kind, name |-> name, decorator_list |-> decorator_list]

Defs ==
    { Def(kind, "f", ds) :
        kind \in {"FunctionDef", "AsyncFunctionDef", "ClassDef"},
        ds \in UNION {[1..n -> Decorators] : n \in 0..MaxDecorators} }

SourceFile(exists_, parse, nodes) == [exists |-> exists_, parse |-> parse, nodes |-> nodes]

\* one definition, alone or before a second component, and the files that cannot be
\* read or parsed
SourceFiles ==
    { SourceFile(TRUE, "ok", <<d>>) : d \in Defs }
    \cup { SourceFile(TRUE, "ok",
                      <<d, Def("FunctionDef", "g", <<AstAttribute(AstName("dsl"), "component")>>)>>) :
             d \in {d \in Defs : Len(d.decorator_list) <= 1} }
    \cup { SourceFile(TRUE, "ok", <<>>),
           SourceFile(TRUE, "SyntaxError", <<>>),
           SourceFile(TRUE, "UnicodeDecodeError", <<>>),
           SourceFile(FALSE, "ok", <<>>) }

NoSourceFile == SourceFile(FALSE, "ok", <<>>)

AstIdle ==
    /\ source_file = NoSourceFile
    /\ names_ast = NoAstResult
    /\ with_decorator = NoWithResult
    /\ wanted = "none"
    /\ ast_pc = "idle"

\* validate_components._process_file line 78
FindNamesAst ==
    /\ ast_pc = "names"
    /\ names_ast' = find_decorated_function_names_ast(source_file)
    /\ ast_pc' = "with"
    /\ UNCHANGED <<source_file, with_decorator, wanted>>

\* a caller of parsing.find_functions_with_decorator on the same file
FindWithDecorator ==
    /\ ast_pc = "with"
    /\ \E kind \in {"component", "pipeline"} :
         /\ wanted' = kind
         /\ with_decorator' = find_functions_with_decorator(source_file, kind)
    /\ ast_pc' = "done"
    /\ UNCHANGED <<source_file, names_ast>>

-----------------------------------------------------------------------------
(* load_module_from_path (kfp_compilation.py and parsing.py hold the same   *)
(* function): sys.modules is a table from names to module objects; a module *)
(* object has an identity and the state of its namespace.                   *)

MaxLoads == 3

ModuleNames == {"m1", "m2"}

\* what the file at a path does: no loader for its suffix, no such file, a body that
\* runs to its end, a body that raises after its first assignment
ModuleFiles ==
    [ n_txt |-> "no spec", missing_py |-> "FileNotFoundError",
      a_py |-> "returns", b_py |-> "RuntimeError" ]

ModulePaths == DOMAIN ModuleFiles

NotRegistered == [id |-> 0, path |-> "", namespace |-> "none"]
NoLoad == [module_path |-> "", module_name |-> "", id |-> 0]

\* importlib.util.spec_from_file_location (line 30): None without a loader
spec_from_file_location(module_path) ==
    IF ModuleFiles[module_path] = "no spec" THEN "None" ELSE "spec"

\* importlib.util.module_from_spec (line 34): a new module object, its namespace empty
module_from_spec(module_path, id) ==
    [id |-> id, path |-> module_path, namespace |-> "empty"]

LoadIdle ==
    /\ sys_modules = [n \in ModuleNames |-> NotRegistered]
    /\ loading = NoLoad
    /\ load_log = <<>>
    /\ load_pc = "idle"

\* lines 30-35: the call up to the registration of the new module
LoadModule ==
    /\ load_pc = "ready"
    /\ Len(load_log) < MaxLoads
    /\ \E module_path \in ModulePaths, module_name \in ModuleNames :
         LET id == Len(load_log) + 1
         IN  IF spec_from_file_location(module_path) = "None"
             THEN /\ load_log' = Append(load_log,
                                   [module_name |-> module_name, id |-> id,
                                    outcome |-> "ImportError"])
                  /\ UNCHANGED <<sys_modules, loading, load_pc>>
             ELSE /\ sys_modules' = [sys_modules EXCEPT ![module_name] =
                                        module_from_spec(module_path, id)]
                  /\ loading' = [module_path |-> module_path,
                                 module_name |-> module_name, id |-> id]
                  /\ load_log' = Append(load_log,
                                   [module_name |-> module_name, id |-> id,
                                    outcome |-> "executing"])
                  /\ load_pc' = "exec"

\* the namespace of the loaded object after its body ran
Executed(module, ended) ==
    [module EXCEPT !.namespace = IF ended = "returns" THEN "complete"
                                 ELSE IF ended = "FileNotFoundError" THEN "empty"
                                 ELSE "partial"]

\* faulty variant: a body that raises takes its module out of the table
ExecModule_unregisters ==
    /\ load_pc = "exec"
    /\ LET ended == ModuleFiles[loading.module_path]
       IN  /\ sys_modules' =
                [sys_modules EXCEPT ![loading.module_name] =
                    IF ended = "returns" THEN Executed(@, ended)
                    ELSE NotRegistered]
           /\ load_log' = [load_log EXCEPT ![Len(load_log)].outcome = ended]
    /\ loading' = NoLoad
    /\ load_pc' = "ready"

\* lines 36-37: spec.loader.exec_module(module) runs the body in the registered
\* object; the call returns the module or the body's exception leaves it
ExecModule ==
    /\ load_pc = "exec"
    /\ LET ended == ModuleFiles[loading.module_path]
       IN  /\ sys_modules' =
                [sys_modules EXCEPT ![loading.module_name] = Executed(@, ended)]
           /\ load_log' = [load_log EXCEPT ![Len(load_log)].outcome = ended]
    /\ loading' = NoLoad
    /\ load_pc' = "ready"

-----------------------------------------------------------------------------
(* Specifications.  The subsystems share no state: each specification      *)
(* runs one of them and keeps the others idle.                             *)

OverrideIdle ==
    /\ exists = FALSE /\ disk = <<>> /\ container_tag = <<>> /\ image_prefix = <<>>
    /\ dry_run = FALSE /\ pc = "idle" /\ base_images = <<>> /\ to_replace = <<>>
    /\ lines = <<>> /\ outcome = "running" /\ result = NoResult /\ disk0 = <<>>
    /\ located = get_base_image_locations(<<>>)
    /\ touched = FALSE /\ writes = 0 /\ calls = 0 /\ prev = NoPrev

\* every subsystem but g is idle
Idle(g) ==
    /\ IF g = "override" THEN TRUE ELSE OverrideIdle
    /\ IF g = "validator" THEN TRUE ELSE ValidatorIdle
    /\ IF g = "compiler" THEN TRUE ELSE CompilerIdle
    /\ IF g = "check" THEN TRUE ELSE CheckIdle
    /\ IF g = "loader" THEN TRUE ELSE LoaderIdle
    /\ IF g = "batch" THEN TRUE ELSE BatchIdle
    /\ IF g = "finder" THEN TRUE ELSE FinderIdle
    /\ IF g = "tag" THEN TRUE ELSE TagIdle
    /\ IF g = "ast" THEN TRUE ELSE AstIdle
    /\ IF g = "load" THEN TRUE ELSE LoadIdle

\* a step of subsystem g leaves the others alone
Frame(g) ==
    /\ IF g = "override" THEN TRUE ELSE UNCHANGED ovars
    /\ IF g = "validator" THEN TRUE ELSE UNCHANGED vvars
    /\ IF g = "compiler" THEN TRUE ELSE UNCHANGED kvars
    /\ IF g = "check" THEN TRUE ELSE UNCHANGED cvars
    /\ IF g = "loader" THEN TRUE ELSE UNCHANGED avars
    /\ IF g = "batch" THEN TRUE ELSE UNCHANGED bvars
    /\ IF g = "finder" THEN TRUE ELSE UNCHANGED fvars
    /\ IF g = "tag" THEN TRUE ELSE UNCHANGED tvars
    /\ IF g = "ast" THEN TRUE ELSE UNCHANGED svars
    /\ IF g = "load" THEN TRUE ELSE UNCHANGED mvars

InitValid ==
    /\ image \in Images
    /\ allowlist \in Allowlists
    /\ verdict = "idle"
    /\ Idle("validator")

NextValid == CheckImage /\ Frame("validator")

SpecValid == InitValid /\ [][NextValid]_vars

InitCompile ==
    /\ stream \in Streams
    /\ ir_yaml = NotLoaded
    /\ extracted = NotExtracted
    /\ Idle("compiler")

NextCompile ==
    \/ (LoadCompiledYaml /\ Frame("compiler"))
    \/ (GetBaseImages /\ Frame("compiler"))

SpecCompile == InitCompile /\ [][NextCompile]_vars

InitCheck ==
    /\ check_args \in CheckArgs
    /\ tree \in Trees
    /\ candidate_files = <<>>
    /\ cursor = 1
    /\ results = <<>>
    /\ all_valid = "unset"
    /\ check_pc = "discover"
    /\ tmpdir = "none"
    /\ tmpdirs_made = 0
    /\ compiled_to = <<>>
    /\ Idle("check")

NextCheck ==
    \/ (Discover /\ Frame("check"))
    \/ (CheckAsset /\ Frame("check"))
    \/ (Aggregate /\ Frame("check"))

SpecCheck == InitCheck /\ [][NextCheck]_vars

InitAllow ==
    /\ allowlist_data \in AllowlistDocs
    /\ loaded_allowlist = NotCalled
    /\ loader_pc = "load"
    /\ Idle("loader")

NextAllow == LoadAllowlist /\ Frame("loader")

SpecAllow == InitAllow /\ [][NextAllow]_vars

InitBatch ==
    /\ batch_args \in BatchArgs
    /\ batch_fs \in BatchTrees
    /\ batch_fs0 = batch_fs
    /\ dir_cursor = 1
    /\ pending = {}
    /\ modified_files = <<>>
    /\ reports = <<>>
    /\ batch_pc = "iterate"
    /\ Idle("batch")

NextBatch ==
    \/ (NextDirectory /\ Frame("batch"))
    \/ (OverrideFile /\ Frame("batch"))
    \/ (ReturnModified /\ Frame("batch"))

SpecBatch == InitBatch /\ [][NextBatch]_vars

InitFind ==
    /\ loaded_module \in Modules
    /\ decorator_type \in DecoratorTypes
    /\ decorated = <<>>
    /\ finder_pc = "find"
    /\ Idle("finder")

NextFind == FindDecorated /\ Frame("finder")

SpecFind == InitFind /\ [][NextFind]_vars

InitTag ==
    /\ tag_arg \in TagInputs
    /\ tag_outcome = "pending"
    /\ Idle("tag")

NextTag == ValidateTag /\ Frame("tag")

SpecTag == InitTag /\ [][NextTag]_vars

InitAst ==
    /\ source_file \in SourceFiles
    /\ names_ast = NoAstResult
    /\ with_decorator = NoWithResult
    /\ wanted = "none"
    /\ ast_pc = "names"
    /\ Idle("ast")

NextAst ==
    \/ (FindNamesAst /\ Frame("ast"))
    \/ (FindWithDecorator /\ Frame("ast"))

SpecAst == InitAst /\ [][NextAst]_vars

\* the loader and the resolver on documents of any shape
InitCompileAny ==
    /\ stream \in AnyShapeStreams
    /\ ir_yaml = NotLoaded
    /\ extracted = NotExtracted
    /\ Idle("compiler")

SpecCompileAny == InitCompileAny /\ [][NextCompile]_vars

\* the tag check over directories whose names differ in non-word characters only
InitCheckNames ==
    /\ check_args \in CheckArgs
    /\ tree \in NamedTrees
    /\ candidate_files = <<>>
    /\ cursor = 1
    /\ results = <<>>
    /\ all_valid = "unset"
    /\ check_pc = "discover"
    /\ tmpdir = "none"
    /\ tmpdirs_made = 0
    /\ compiled_to = <<>>
    /\ Idle("check")

SpecCheckNames == InitCheckNames /\ [][NextCheck]_vars

\* load_module_from_path called up to MaxLoads times
InitLoad ==
    /\ sys_modules = [n \in ModuleNames |-> NotRegistered]
    /\ loading = NoLoad
    /\ load_log = <<>>
    /\ load_pc = "ready"
    /\ Idle("load")

NextLoad ==
    \/ (LoadModule /\ Frame("load"))
    \/ (ExecModule /\ Frame("load"))

SpecLoad == InitLoad /\ [][NextLoad]_vars

Init ==
    /\ \/ exists = TRUE /\ disk \in Files
       \/ exists = FALSE /\ disk = <<>>
    /\ container_tag \in Tags
    /\ image_prefix \in Prefixes
    /\ dry_run \in BOOLEAN
    /\ pc = "validate"
    /\ base_images = <<>>
    /\ to_replace = <<>>
    /\ lines = <<>>
    /\ outcome = "running"
    /\ result = NoResult
    /\ disk0 = disk
    /\ located = get_base_image_locations(disk)
    /\ touched = FALSE
    /\ writes = 0
    /\ calls = 1
    /\ prev = NoPrev
    /\ Idle("override")

Next ==
    \/ (Validate /\ Frame("override"))
    \/ (Locate /\ Frame("override"))
    \/ (SelectCandidates /\ Frame("override"))
    \/ (ReadLines /\ Frame("override"))
    \/ (Edit /\ Frame("override"))
    \/ (Finish /\ Frame("override"))
    \/ (CallAgain /\ Frame("override"))

Spec == Init /\ [][Next]_vars

-----------------------------------------------------------------------------
(* What the claims speak of, stated on the file's text and independently   *)
(* of the rewriter's own helpers.                                          *)

Sentinel == <<":", "m", "a", "i", "n">>
Styles == { <<DQ>>, <<SQ>>, <<DQ, DQ, DQ>>, <<SQ, SQ, SQ>> }

IsCandidateValue(v, prefix) ==
    /\ Len(v) >= Len(prefix) + 1
    /\ SubSeq(v, 1, Len(prefix)) = prefix
    /\ v[Len(prefix) + 1] = "-"
    /\ Len(v) >= Len(Sentinel)
    /\ SubSeq(v, Len(v) - Len(Sentinel) + 1, Len(v)) = Sentinel

\* the value with the sentinel tag replaced by tag
Retagged(v, tag) == SubSeq(v, 1, Len(v) - Len(Sentinel)) \o <<":">> \o tag

\* the index in text t of column col (from 0) of line ln (from 1)
IndexAt(t, ln, col) ==
    IF ln = 1 THEN col + 1
    ELSE (CHOOSE j \in 1..Len(t) : t[j] = LF /\ LineOf(t, j) = ln - 1) + col + 1

\* the characters of the literal at a location, quotes included
LiteralText(t, loc) ==
    SubSeq(t, IndexAt(t, loc.start_line, loc.start_col),
              IndexAt(t, loc.end_line, loc.end_col) - 1)

\* the literals of the file as the current call found it
Before == located
CandidateIdx ==
    {i \in 1..Len(Before.locs) : IsCandidateValue(Before.locs[i].value, image_prefix)}
MultiLineIdx ==
    {i \in CandidateIdx : Before.locs[i].start_line # Before.locs[i].end_line}

\* content holds the literals of the file, every candidate with the new tag
RewrittenTo(content) ==
    LET b == get_base_image_locations(content)
    IN  /\ Before.error = "none"
        /\ b.error = "none"
        /\ Len(b.locs) = Len(Before.locs)
        /\ \A i \in 1..Len(Before.locs) :
              b.locs[i].value = IF i \in CandidateIdx
                                THEN Retagged(Before.locs[i].value, container_tag)
                                ELSE Before.locs[i].value

\* a base_image keyword whose value does not open with a quote
HasNonLiteral(t) ==
    \E i \in 1..Len(t) : t[i] = "B" /\ (i = Len(t) \/ t[i + 1] \notin Quotes)

Contains(t, sub) ==
    \E i \in 0..(Len(t) - Len(sub)) : SubSeq(t, i + 1, i + Len(sub)) = sub

\* the line terminators of a file, in order
RECURSIVE Terminators(_)
Terminators(b) ==
    IF b = <<>> THEN <<>>
    ELSE IF Head(b) = CR /\ Len(b) >= 2 /\ b[2] = LF
         THEN <<"CRLF">> \o Terminators(SubSeq(b, 3, Len(b)))
    ELSE IF Head(b) \in {CR, LF} THEN <<Head(b)>> \o Terminators(Tail(b))
    ELSE Terminators(Tail(b))

\* text t without the characters at the indices in cut
RECURSIVE CutOut(_, _, _)
CutOut(t, cut, k) ==
    IF k > Len(t) THEN <<>>
    ELSE (IF k \in cut THEN <<>> ELSE <<t[k]>>) \o CutOut(t, cut, k + 1)

\* the text of a file outside the spans of the literals at the indices idx
Outside(bytes, idx) ==
    LET t == ReadText(bytes)
        p == get_base_image_locations(bytes)
        cut == UNION { IndexAt(t, p.locs[i].start_line, p.locs[i].start_col) ..
                       (IndexAt(t, p.locs[i].end_line, p.locs[i].end_col) - 1) :
                       i \in idx \cap (1..Len(p.locs)) }
    IN  CutOut(t, cut, 1)

-----------------------------------------------------------------------------
(* Claims *)

\* C1: the file is never partially rewritten.  At most one write happens in a call,
\* and only as its last step, after every edit was applied to the line buffer; a call
\* that raised wrote nothing; the content on disk is the content before the call or
\* holds every candidate literal with the new tag.
C1_NoPartialRewrite ==
    /\ writes <= 1
    /\ (writes = 0 => disk = disk0)
    /\ (writes = 1 => /\ pc = "done"
                      /\ outcome = "returned"
                      /\ to_replace = <<>>
                      /\ RewrittenTo(disk))
    /\ (outcome \notin {"running", "returned"} => writes = 0 /\ disk = disk0)

C1_Witness ==
    /\ pc = "done"
    /\ writes = 1
    /\ disk # disk0
    /\ Cardinality(CandidateIdx) >= 2

\* C3 (as claimed): a call on the file a previous call with the same tag and prefix
\* left behind returns was_modified=False and leaves the content unchanged.
C3_Idempotent ==
    (pc = "done" /\ calls >= 2 /\ prev.outcome = "returned" /\ ~prev.dry_run
       /\ prev.container_tag = container_tag)
    => (outcome = "returned" /\ ~result.was_modified /\ disk = disk0)

\* C4 (as claimed): a file with N >= 1 candidates yields was_modified=True and a
\* content with all N candidates carrying the new tag.
C4_Original ==
    (pc = "done" /\ exists /\ ValidTag(container_tag) /\ Before.error = "none"
       /\ CandidateIdx # {})
    => (outcome = "returned" /\ result.was_modified /\ RewrittenTo(result.new_content))

\* C4 (amended): when the tag is valid, every base_image value is a literal and no
\* candidate spans several lines, a file with N >= 1 candidates yields
\* was_modified=True and a content with all N candidates carrying the new tag and
\* every other literal its old value; a file with no candidate yields (False, None)
\* and is not written; only candidates are ever selected for editing.
C4_Completeness ==
    /\ \A i \in 1..Len(to_replace) : IsCandidateValue(to_replace[i].value, image_prefix)
    /\ (pc = "read" =>
          {to_replace[i] : i \in 1..Len(to_replace)} = {Before.locs[i] : i \in CandidateIdx})
    /\ (pc = "done" /\ exists /\ ValidTag(container_tag) /\ Before.error = "none")
       => /\ (CandidateIdx # {} /\ MultiLineIdx = {})
               => /\ outcome = "returned"
                  /\ result.was_modified
                  /\ result.has_content
                  /\ RewrittenTo(result.new_content)
                  /\ (~dry_run => RewrittenTo(disk))
          /\ CandidateIdx = {}
               => /\ outcome = "returned"
                  /\ result = NoResult
                  /\ writes = 0
                  /\ disk = disk0

C4_Witness ==
    /\ pc = "done"
    /\ outcome = "returned"
    /\ result.was_modified
    /\ Cardinality(CandidateIdx) >= 2
    /\ CandidateIdx # 1..Len(Before.locs)

\* C5: a candidate written in one of the four quote styles is rewritten in the same
\* style, and its value changes in the tag only.
C5_QuoteStylePreserved ==
    (pc = "done" /\ outcome = "returned" /\ result.was_modified)
    => LET t0 == ReadText(disk0)
           t1 == result.new_content
           b == get_base_image_locations(t1)
       IN  /\ b.error = "none"
           /\ Len(b.locs) = Len(Before.locs)
           /\ \A i \in CandidateIdx : \A q \in Styles :
                 LiteralText(t0, Before.locs[i]) = q \o Before.locs[i].value \o q
                 => LiteralText(t1, b.locs[i])
                      = q \o Retagged(Before.locs[i].value, container_tag) \o q

C5_Witness ==
    /\ pc = "done"
    /\ outcome = "returned"
    /\ result.was_modified
    /\ \E i \in CandidateIdx :
          LiteralText(ReadText(disk0), Before.locs[i])
            = <<DQ, DQ, DQ>> \o Before.locs[i].value \o <<DQ, DQ, DQ>>
    /\ \E i \in CandidateIdx :
          LiteralText(ReadText(disk0), Before.locs[i])
            = <<SQ>> \o Before.locs[i].value \o <<SQ>>

\* C6 (as claimed): after a successful rewrite every byte outside the candidate
\* literals is as before: the line terminators, and the text around the literals.
C6_FramePreserved ==
    (pc = "done" /\ outcome = "returned" /\ result.was_modified /\ ~dry_run)
    => /\ Terminators(disk) = Terminators(disk0)
       /\ Outside(disk, CandidateIdx) = Outside(disk0, CandidateIdx)

\* C7: a dry run never writes; it returns what the call that writes returns on the
\* same input; and the call that writes leaves the returned content on disk.
C7_DryRun ==
    /\ (dry_run => writes = 0 /\ disk = disk0)
    /\ (pc = "done" /\ calls >= 2 /\ prev.dry_run /\ ~dry_run /\ prev.disk0 = disk0
          /\ prev.container_tag = container_tag)
       => (outcome = prev.outcome /\ result = prev.result)
    /\ (pc = "done" /\ outcome = "returned" /\ ~dry_run /\ result.was_modified)
       => disk = result.new_content

C7_Witness ==
    /\ pc = "done"
    /\ calls >= 2
    /\ prev.dry_run
    /\ prev.result.was_modified
    /\ ~dry_run
    /\ result.was_modified
    /\ disk # disk0

\* C8: a tag that validate_tag rejects makes the call raise ValueError before the
\* file is read, parsed or edited, with or without candidates and dry_run.
C8_TagValidatedFirst ==
    (pc # "idle" /\ ~ValidTag(container_tag))
    => /\ ~touched
       /\ writes = 0
       /\ disk = disk0
       /\ lines = <<>>
       /\ base_images = <<>>
       /\ (pc = "done" => outcome = "ValueError")

C8_Witness ==
    /\ pc = "done"
    /\ ~ValidTag(container_tag)
    /\ outcome = "ValueError"
    /\ ~dry_run
    /\ Contains(disk0, <<"B", DQ>> \o ValA \o <<DQ>>)

\* C9: a non-literal base_image anywhere in the file makes the call raise ValueError
\* with no location returned and the file unmodified, also when the file holds
\* candidates.
C9_NonLiteralAborts ==
    (pc # "idle" /\ exists /\ ValidTag(container_tag) /\ HasNonLiteral(ReadText(disk0)))
    => /\ base_images = <<>>
       /\ to_replace = <<>>
       /\ writes = 0
       /\ disk = disk0
       /\ (pc = "done" => outcome = "ValueError")

C9_Witness ==
    /\ pc = "done"
    /\ outcome = "ValueError"
    /\ ValidTag(container_tag)
    /\ HasNonLiteral(ReadText(disk0))
    /\ Contains(disk0, <<"B", DQ>> \o ValA \o <<DQ>>)

\* C10: a candidate that spans several lines makes the call raise ValueError and
\* write nothing, whatever candidates precede or follow it.
C10_MultiLineAborts ==
    (pc # "idle" /\ exists /\ ValidTag(container_tag) /\ Before.error = "none"
       /\ MultiLineIdx # {})
    => /\ writes = 0
       /\ disk = disk0
       /\ (pc = "done" => outcome = "ValueError")

C10_Witness ==
    /\ pc = "done"
    /\ outcome = "ValueError"
    /\ MultiLineIdx # {}
    /\ Cardinality(CandidateIdx) >= 2
    /\ lines # SplitLines(ReadText(disk0))

\* C2 (as claimed): the verdict is True exactly when the image is empty, or is one of
\* allowed_images, or is matched in full by one of allowed_image_patterns.
C2_ValidIffFullMatch ==
    verdict # "idle"
    => ((verdict = "True")
          <=> \/ image = <<>>
              \/ allowlist.present /\ image \in allowlist.allowed_images
              \/ allowlist.present
                 /\ \E k \in 1..Len(allowlist.allowed_image_patterns) :
                       re_fullmatch(allowlist.allowed_image_patterns[k], image))

-----------------------------------------------------------------------------
(* Claims about the compiled stream and the image resolver *)

\* the mapping-shaped documents of the stream, in stream order
MappingDocs == SelectSeq(stream, LAMBDA d : d.t = "map")

HasPlatformsMapping(d) ==
    "platforms" \in DOMAIN d.kv /\ d.kv["platforms"].t = "map"

HasDeploymentOrRoot(d) ==
    "deploymentSpec" \in DOMAIN d.kv \/ "root" \in DOMAIN d.kv

IsPair(v) == v.t = "map" /\ DOMAIN v.kv = {"pipeline_spec", "platform_spec"}

\* C11 (as claimed): the number n of mapping-shaped documents decides the outcome:
\* n = 0 raises ValueError, n = 1 returns the document unchanged, n = 2 returns a
\* {pipeline_spec, platform_spec} pair or raises, and n >= 3 is never accepted.
C11_CountDecides ==
    ir_yaml # NotLoaded
    => LET n == Len(MappingDocs)
       IN  /\ (n = 0 => ir_yaml.error = "ValueError")
           /\ (n = 1 => ir_yaml = [error |-> "none", value |-> MappingDocs[1]])
           /\ (n = 2 => \/ ir_yaml.error = "ValueError"
                        \/ ir_yaml.error = "none" /\ IsPair(ir_yaml.value))
           /\ (n >= 3 => ir_yaml.error = "ValueError")

\* C12: a stream of two mapping-shaped documents yields a pair exactly when one
\* document has a "platforms" mapping and the other has a "deploymentSpec" or "root"
\* key and no "platforms" mapping; the pair assigns the documents by that content;
\* every other two documents raise ValueError; and the stream in the opposite order
\* has the same outcome and the same assignment.
C12_ContentBased ==
    (ir_yaml # NotLoaded /\ Len(MappingDocs) = 2)
    => LET d == MappingDocs
           Classifies(i, j) == /\ HasPlatformsMapping(d[i])
                               /\ HasDeploymentOrRoot(d[j])
                               /\ ~HasPlatformsMapping(d[j])
       IN  /\ ir_yaml.error \in {"none", "ValueError"}
           /\ (ir_yaml.error = "none") <=> (Classifies(1, 2) \/ Classifies(2, 1))
           /\ \A i, j \in 1..2 :
                 (ir_yaml.error = "none" /\ i # j /\ Classifies(i, j))
                 => /\ IsPair(ir_yaml.value)
                    /\ ir_yaml.value.kv["platform_spec"] = d[i]
                    /\ ir_yaml.value.kv["pipeline_spec"] = d[j]
           /\ _load_compiled_yaml(Reversed(stream)) = ir_yaml

C12_Witness ==
    /\ Len(MappingDocs) = 2
    /\ ir_yaml.error = "none"
    /\ HasPlatformsMapping(MappingDocs[1])
    /\ "deploymentSpec" \in DOMAIN MappingDocs[1].kv
    /\ ir_yaml.value.kv["pipeline_spec"] = MappingDocs[2]
    /\ Len(stream) = 3

\* C13: on a {pipeline_spec, platform_spec} pair the resolver returns the images of
\* the primary extractor on pipeline_spec united with those of the platform extractor
\* on platform_spec; on a single document it returns what the primary extractor
\* returns on it; neither is an error.
C13_ResolverUnion ==
    extracted # NotExtracted
    => LET r == ir_yaml.value
       IN  /\ extracted.error = "none"
           /\ IsPair(r) =>
                 extracted.images =
                   extract_base_images_from_pipeline_spec(r.kv["pipeline_spec"]).images
                   \cup extract_base_images_from_platform_spec(r.kv["platform_spec"])
           /\ ~IsPair(r) => extracted = extract_base_images_from_pipeline_spec(r)

C13_Witness ==
    /\ extracted # NotExtracted
    /\ IsPair(ir_yaml.value)
    /\ extract_base_images_from_pipeline_spec(ir_yaml.value.kv["pipeline_spec"]).images
         = {"a", "b"}
    /\ extract_base_images_from_platform_spec(ir_yaml.value.kv["platform_spec"])
         = {"a", "d"}
    /\ extracted.images = {"a", "b", "d"}

\* the value at a path of keys, None where the path does not exist
RECURSIVE At(_, _)
At(v, path) ==
    IF path = <<>> THEN v
    ELSE IF v.t = "map" /\ Head(path) \in DOMAIN v.kv
         THEN At(v.kv[Head(path)], Tail(path))
         ELSE [t |-> "null"]

Keys(v) == IF v.t = "map" THEN DOMAIN v.kv ELSE {}

NonEmptyStr(v) == v.t = "str" /\ v.s # ""

\* the non-empty image values at the given paths
ImagesAt(v, paths) == { At(v, p).s : p \in {p \in paths : NonEmptyStr(At(v, p))} }

PrimaryPaths(doc) ==
    { <<"deploymentSpec", "executors", e, "container", "image">> :
        e \in Keys(At(doc, <<"deploymentSpec", "executors">>)) }
    \cup { <<"root", "dag", "tasks", t, "componentRef", "image">> :
             t \in Keys(At(doc, <<"root", "dag", "tasks">>)) }
    \cup { <<"deploymentSpec", "executors",
             At(doc, <<"components", c, "executorLabel">>).s, "container", "image">> :
             c \in {c \in Keys(At(doc, <<"components">>)) :
                      NonEmptyStr(At(doc, <<"components", c, "executorLabel">>))} }

PlatformPaths(doc) ==
    UNION { { <<"platforms", p, "deploymentSpec", "executors", e, "container", "image">> :
                e \in Keys(At(doc, <<"platforms", p, "deploymentSpec", "executors">>)) } :
            p \in Keys(At(doc, <<"platforms">>)) }

\* C14: the resolver collects exactly the non-empty image values at
\* deploymentSpec.executors.<e>.container.image, root.dag.tasks.<t>.componentRef.image
\* and, for components.<c>.executorLabel naming an executor, that executor's
\* container.image of a primary specification, and at
\* platforms.<p>.deploymentSpec.executors.<e>.container.image of a platform
\* specification; nothing else; each image once.
C14_ExactPaths ==
    /\ \A i \in 1..Len(MappingDocs) :
          LET d == MappingDocs[i]
          IN  /\ extract_base_images_from_pipeline_spec(d)
                   = [error |-> "none", images |-> ImagesAt(d, PrimaryPaths(d))]
              /\ extract_base_images_from_platform_spec(d) = ImagesAt(d, PlatformPaths(d))
    /\ extracted # NotExtracted
       => LET r == ir_yaml.value
          IN  extracted.images =
                IF IsPair(r)
                THEN ImagesAt(r.kv["pipeline_spec"], PrimaryPaths(r.kv["pipeline_spec"]))
                     \cup ImagesAt(r.kv["platform_spec"],
                                   PlatformPaths(r.kv["platform_spec"]))
                ELSE ImagesAt(r, PrimaryPaths(r))

C14_Witness ==
    /\ extracted # NotExtracted
    /\ IsPair(ir_yaml.value)
    /\ At(ir_yaml.value, <<"pipeline_spec", "deploymentSpec", "executors", "e2",
                           "container", "image">>) = [t |-> "str", s |-> ""]
    /\ At(ir_yaml.value, <<"pipeline_spec", "image">>) = [t |-> "str", s |-> "c"]
    /\ At(ir_yaml.value, <<"platform_spec", "platforms", "gcp", "deploymentSpec",
                           "executors", "e3", "container", "image">>)
         = [t |-> "str", s |-> "d"]
    /\ extracted.images = {"a", "d"}

-----------------------------------------------------------------------------
(* Claims about check_base_image_tags *)

\* the asset files under the directories given, as the file system holds them
ExpectedFiles ==
    { tree.files[n] : n \in {n \in 1..Len(tree.files) :
          /\ tree.files[n].dir \in tree.existing
          /\ \E i \in 1..Len(check_args.directories) :
                check_args.directories[i] = tree.files[n].dir} }

\* loading the file fails, or compiling one of its decorated functions does
LoadOrCompileFails(f) ==
    ~f.loads \/ \E k \in 1..Len(f.functions) : ~f.functions[k].compiles

ResolvedImages(f) == UNION { f.functions[k].images : k \in 1..Len(f.functions) }

UnderPrefix(img) ==
    LET p == check_args.image_prefix
    IN  Len(img) > Len(p) /\ SubSeq(img, 1, Len(p)) = p /\ img[Len(p) + 1] = "-"

\* the image without the prefix ends with ":<expected_tag>"
HasExpectedTag(img) ==
    LET rest == SubSeq(img, Len(check_args.image_prefix) + 1, Len(img))
        suffix == <<":">> \o check_args.expected_tag
    IN  Len(rest) >= Len(suffix)
        /\ SubSeq(rest, Len(rest) - Len(suffix) + 1, Len(rest)) = suffix

\* the records of s about the file at path, in order
RECURSIVE RecordsAbout(_, _)
RecordsAbout(s, path) ==
    IF s = <<>> THEN <<>>
    ELSE (IF Head(s).file = path THEN <<Head(s)>> ELSE <<>>) \o RecordsAbout(Tail(s), path)

RecordsOf(f) == RecordsAbout(results, f.path)

CountOf(s, status) == Cardinality({i \in 1..Len(s) : s[i].status = status})

\* C15: all_valid is True exactly when every record is valid, which includes the run
\* without records: no candidate file, directories that do not exist, files without
\* decorated functions, images outside the prefix only.
C15_AllValidIff ==
    check_pc = "done"
    => /\ all_valid \in {"True", "False"}
       /\ (all_valid = "True") <=> (\A i \in 1..Len(results) : results[i].status = "valid")
       /\ (\A f \in ExpectedFiles :
              ~LoadOrCompileFails(f) /\ \A img \in ResolvedImages(f) : ~UnderPrefix(img))
          => (results = <<>> /\ all_valid = "True")

C15_Witness ==
    /\ check_pc = "done"
    /\ all_valid = "False"
    /\ CountOf(results, "valid") >= 2
    /\ CountOf(results, "invalid") = 1

\* C16: a file whose load fails or one of whose functions fails to compile gets
\* exactly one record, invalid with an error, and no image record; every other
\* file under the directories is still checked and has its records.
C16_ErrorRecordPerFile ==
    check_pc = "done"
    => \A f \in ExpectedFiles :
         IF LoadOrCompileFails(f)
         THEN /\ Len(RecordsOf(f)) = 1
              /\ RecordsOf(f)[1].status = "invalid"
              /\ DOMAIN RecordsOf(f)[1] = {"file", "line_num", "status", "error"}
         ELSE /\ Len(RecordsOf(f))
                   = Cardinality({img \in ResolvedImages(f) : UnderPrefix(img)})
              /\ \A i \in 1..Len(RecordsOf(f)) : "error" \notin DOMAIN RecordsOf(f)[i]

C16_Witness ==
    /\ check_pc = "done"
    /\ Len(results) = 2
    /\ "error" \in DOMAIN results[1]
    /\ results[2].status = "valid"
    /\ \E f \in ExpectedFiles :
          /\ f.path = results[1].file
          /\ f.loads
          /\ f.functions[1].compiles
          /\ \E img \in f.functions[1].images : UnderPrefix(img)

\* C17: a file that compiled gets exactly one record for each distinct resolved image
\* that starts with "<image_prefix>-" and none for any other image; the record is valid
\* when the image without the prefix ends with ":<expected_tag>", and otherwise invalid
\* with found the image and expected "<image_prefix>-<name>:<expected_tag>".
C17_ImageRecords ==
    check_pc = "done"
    => \A f \in ExpectedFiles :
         ~LoadOrCompileFails(f)
         => LET imgs == {img \in ResolvedImages(f) : UnderPrefix(img)}
                rs == RecordsOf(f)
                bad == {i \in 1..Len(rs) : rs[i].status # "valid"}
            IN  /\ Len(rs) = Cardinality(imgs)
                /\ CountOf(rs, "valid") = Cardinality({img \in imgs : HasExpectedTag(img)})
                /\ {rs[i].found : i \in bad} = {img \in imgs : ~HasExpectedTag(img)}
                /\ \A i \in bad :
                      /\ rs[i].status = "invalid"
                      /\ rs[i].expected
                           = check_args.image_prefix
                             \o <<"-", "<", "n", "a", "m", "e", ">", ":">>
                             \o check_args.expected_tag

C17_Witness ==
    /\ check_pc = "done"
    /\ \E f \in ExpectedFiles :
          /\ Len(f.functions) = 2
          /\ f.functions[1].images \cap f.functions[2].images # {}
          /\ Len(RecordsOf(f)) = 3
          /\ CountOf(RecordsOf(f), "valid") = 2
    /\ \E f \in ExpectedFiles :
          /\ ResolvedImages(f) # {}
          /\ RecordsOf(f) = <<>>

-----------------------------------------------------------------------------
(* Claims about load_base_image_allowlist *)

\* the value of a key of the parsed document; [] when the file is empty, the document
\* is no mapping or the key is missing
Listed(key) ==
    IF allowlist_data.t = "map" /\ key \in DOMAIN allowlist_data.kv
    THEN allowlist_data.kv[key]
    ELSE [t |-> "list", items |-> <<>>]

StrList(v) == v.t = "list" /\ \A i \in 1..Len(v.items) : v.items[i].t = "str"

-----------------------------------------------------------------------------
(* Claims about override_base_images *)

ListedExisting ==
    {batch_args.directories[i] : i \in 1..Len(batch_args.directories)} \cap {"c", "p"}

\* the .py files below the listed directories that exist
PyFound == {f \in DOMAIN batch_fs0 : f.suffix = ".py" /\ f.root \in ListedExisting}

RECURSIVE ReportedModified(_)
ReportedModified(rs) ==
    IF rs = <<>> THEN <<>>
    ELSE (IF Head(rs).was_modified THEN <<Head(rs).path>> ELSE <<>>)
         \o ReportedModified(Tail(rs))

\* the file, as it was when the batch started, holds a literal <prefix>-...:main
HadCandidate(f) ==
    \E i \in 1..Len(get_base_image_locations(batch_fs0[f]).locs) :
       LET v == get_base_image_locations(batch_fs0[f]).locs[i].value
       IN  /\ SubSeq(v, 1, Len(batch_args.image_prefix) + 1)
                = batch_args.image_prefix \o <<"-">>
           /\ Len(v) >= 5 /\ SubSeq(v, Len(v) - 4, Len(v)) = <<":", "m", "a", "i", "n">>

\* C19: the batch returns exactly the paths of the .py files below the existing
\* directories for which override_file_images reported was_modified, in a dry run too,
\* where no content changes; a directory that does not exist contributes nothing and
\* raises nothing.
C19_BatchReturns ==
    /\ batch_pc = "returned"
       => /\ modified_files = ReportedModified(reports)
          /\ {reports[i].path : i \in 1..Len(reports)} = PyFound
          /\ {modified_files[i] : i \in 1..Len(modified_files)}
               = {f \in PyFound : HadCandidate(f)}
          /\ batch_args.dry_run => batch_fs = batch_fs0
          /\ \A f \in DOMAIN batch_fs0 \ PyFound : batch_fs[f] = batch_fs0[f]
    /\ batch_pc \notin {"idle", "iterate", "returned"}
       => /\ reports # <<>>
          /\ reports[Len(reports)].outcome = batch_pc
    /\ (batch_pc = "iterate" /\ PyFound = {}) => reports = <<>>

C19_Witness ==
    /\ batch_pc = "returned"
    /\ batch_args.dry_run
    /\ batch_args.directories = <<"x", "p", "c">>
    /\ Len(modified_files) = 1
    /\ modified_files[1].rel = "s/b"
    /\ \E i \in 1..Len(reports) : ~reports[i].was_modified
    /\ \E f \in DOMAIN batch_fs0 : f.suffix = ".txt"

-----------------------------------------------------------------------------
(* Claims about find_decorated_functions_runtime *)

Exposes(v, marker) == v.t = "obj" /\ marker \in DOMAIN v.attrs

Marked(v, kind) ==
    \/ /\ kind = "component"
       /\ \/ Exposes(v, "component_spec")
          \/ /\ Exposes(v, "__wrapped__")
             /\ Exposes(v.attrs["__wrapped__"], "component_spec")
    \/ /\ kind = "pipeline"
       /\ \/ Exposes(v, "pipeline_spec")
          \/ /\ Exposes(v, "_pipeline_func")
             /\ v.attrs["_pipeline_func"].t # "null"

\* C20: the result holds exactly the attributes that are callable, whose name does not
\* begin with an underscore and that carry the marker of the requested kind, each once;
\* a name that begins with an underscore is never returned.
C20_ExactSelection ==
    finder_pc = "done"
    => /\ {decorated[i].name : i \in 1..Len(decorated)}
            = {n \in DOMAIN loaded_module :
                 /\ n[1] # "_"
                 /\ loaded_module[n].t = "obj"
                 /\ loaded_module[n].callable
                 /\ Marked(loaded_module[n], decorator_type)}
       /\ \A i \in 1..Len(decorated) :
             /\ decorated[i].func = loaded_module[decorated[i].name]
             /\ decorated[i].name[1] # "_"
             /\ \A j \in 1..Len(decorated) : decorated[j].name = decorated[i].name => i = j

\* a private component is left out while a component wrapped once is returned
C20_Witness ==
    /\ finder_pc = "done"
    /\ decorator_type = "component"
    /\ <<"_", "a">> \in DOMAIN loaded_module
    /\ Exposes(loaded_module[<<"_", "a">>], "component_spec")
    /\ loaded_module[<<"_", "a">>].callable
    /\ Len(decorated) = 1
    /\ Exposes(decorated[1].func, "__wrapped__")

-----------------------------------------------------------------------------
(* Claims about validate_tag *)

\* C21: a tag is accepted exactly when it has 1 to 128 characters, its first and last
\* characters are ASCII letters, digits or "_", and the characters between are these
\* or "." or "-"; every other tag raises ValueError; the tag is judged as a whole.
C21_TagGrammar ==
    tag_outcome \notin {"idle", "pending"}
    => /\ tag_outcome \in {"returned", "ValueError"}
       /\ tag_outcome = "returned"
          <=> /\ Len(tag_arg) >= 1
              /\ Len(tag_arg) <= 128
              /\ tag_arg[1] \in WordChars
              /\ tag_arg[Len(tag_arg)] \in WordChars
              /\ \A i \in 1..Len(tag_arg) : tag_arg[i] \in WordChars \cup {".", "-"}
       /\ (tag_outcome = "returned") = ValidTag(tag_arg)

\* a tag of the greatest length is accepted, and one more character is refused
C21_Witness ==
    \/ /\ tag_outcome = "returned"
       /\ Len(tag_arg) = 128
       /\ tag_arg[2] = "."
    \/ /\ tag_outcome = "ValueError"
       /\ Len(tag_arg) = 129
       /\ \A i \in 1..129 : tag_arg[i] \in WordChars

-----------------------------------------------------------------------------
(* Claims about the decorator finders *)

\* the final identifier of a decorator of the form name, x.name or x.y.name, called
\* or not; "" for any other expression
RECURSIVE IsDotted(_)
IsDotted(e) ==
    \/ e.node = "Name"
    \/ e.node = "Attribute" /\ IsDotted(e.value)

FinalIdentifier(d) ==
    LET e == IF d.node = "Call" THEN d.func ELSE d
    IN  IF ~IsDotted(e) THEN ""
        ELSE IF e.node = "Name" THEN e.id ELSE e.attr

\* the decorators of a definition whose final identifier names a component or pipeline
Matching(ds) ==
    {i \in 1..Len(ds) :
       FinalIdentifier(ds[i]) \in {"component", "container_component",
                                   "notebook_component", "pipeline"}}

Expected(d) ==
    IF d.kind \notin {"FunctionDef", "AsyncFunctionDef"} \/ Matching(d.decorator_list) = {}
    THEN "none"
    ELSE LET first == CHOOSE i \in Matching(d.decorator_list) :
                         \A j \in Matching(d.decorator_list) : i <= j
         IN  IF FinalIdentifier(d.decorator_list[first]) = "pipeline"
             THEN "pipelines" ELSE "components"

RECURSIVE ExpectedNames(_, _)
ExpectedNames(nodes, k) ==
    IF nodes = <<>> THEN <<>>
    ELSE (IF Expected(Head(nodes)) = k THEN <<Head(nodes).name>> ELSE <<>>)
         \o ExpectedNames(Tail(nodes), k)

\* C22: a sync or async function is listed under the kind of the first decorator whose
\* final identifier is a component or pipeline name, whatever the namespace and whether
\* called or not, and under one kind only.
C22_FinalIdentifier ==
    (ast_pc # "names" /\ source_file.exists /\ source_file.parse = "ok")
    => /\ names_ast.raised = "none"
       /\ ~names_ast.is_empty
       /\ names_ast.components = ExpectedNames(source_file.nodes, "components")
       /\ names_ast.pipelines = ExpectedNames(source_file.nodes, "pipelines")
       /\ Len(names_ast.components) + Len(names_ast.pipelines) <= Len(source_file.nodes)

\* an async function reached through another namespace, with a pipeline decorator below
\* its component decorator
C22_Witness ==
    /\ ast_pc = "done"
    /\ Len(source_file.nodes) = 1
    /\ source_file.nodes[1].kind = "AsyncFunctionDef"
    /\ source_file.nodes[1].decorator_list
         = << [node |-> "Attribute", value |-> [node |-> "Name", id |-> "x"],
               attr |-> "notebook_component"],
              [node |-> "Name", id |-> "pipeline"] >>
    /\ names_ast.components = <<"f">>
    /\ names_ast.pipelines = <<>>

\* C23: a file that cannot be parsed makes both finders raise; neither returns.
C23_SyntaxErrorRaised ==
    (ast_pc = "done" /\ source_file.exists /\ source_file.parse = "SyntaxError")
    => /\ names_ast.raised # "none"
       /\ with_decorator.raised # "none"

-----------------------------------------------------------------------------
(* Claims about the order of the edits of override_file_images *)

\* the pairs of candidates that lie on the same line
SameLinePairs ==
    {p \in CandidateIdx \X CandidateIdx :
       /\ p[1] < p[2]
       /\ Before.locs[p[1]].start_line = Before.locs[p[1]].end_line
       /\ Before.locs[p[2]].start_line = Before.locs[p[2]].end_line
       /\ Before.locs[p[1]].start_line = Before.locs[p[2]].start_line}

\* the lines of the file as the current call found it
Lines0 == SplitLines(ReadText(disk0))

\* C24: with several candidates on one line, all of them are rewritten and the content
\* is the same in whichever order the locator returned them; while edits remain, the
\* line of each of them is unchanged up to the end of its literal.
C24_SameLineEdits ==
    /\ (pc = "done" /\ outcome = "returned" /\ result.was_modified /\ SameLinePairs # {})
       => /\ RewrittenTo(result.new_content)
          /\ Outside(result.new_content, CandidateIdx) = Outside(disk0, CandidateIdx)
          /\ Len(SplitLines(result.new_content)) = Len(Lines0)
    /\ (pc = "edit" /\ outcome = "running")
       => \A k \in 1..Len(to_replace) :
             LET bi == to_replace[k]
             IN  (bi.start_line = bi.end_line /\ bi.start_line <= Len(lines))
                 => /\ bi.end_col <= Len(lines[bi.start_line])
                    /\ bi.end_col <= Len(Lines0[bi.start_line])
                    /\ SubSeq(lines[bi.start_line], 1, bi.end_col)
                         = SubSeq(Lines0[bi.start_line], 1, bi.end_col)

\* two candidates on one line, returned first-to-last, rewritten with a shorter tag
C24_Witness ==
    /\ pc = "done"
    /\ outcome = "returned"
    /\ result.was_modified
    /\ SameLinePairs # {}
    /\ base_images = Before.locs
    /\ container_tag = <<"1">>
    /\ Len(result.new_content) < Len(ReadText(disk0))

-----------------------------------------------------------------------------
(* Claims about the resolver on documents of any shape *)

\* C28: on every result the loader accepts, whatever the shape of the nested values,
\* the resolver returns a set and does not raise.
C28_ResolverNeverRaises ==
    extracted # NotExtracted => extracted.error = "none"

-----------------------------------------------------------------------------
(* Claims about the scratch directory and the output paths of the tag check *)

\* C25: the scratch directory of check_base_image_tags is created once, before the
\* first file is processed; it exists at every compilation and between the files of
\* the loop, no file creates or removes one, and it has been removed when the call
\* has returned or an exception has left it.
C25_ScratchLifetime ==
    /\ tmpdirs_made <= 1
    /\ check_pc = "discover" => tmpdir = "none" /\ compiled_to = <<>>
    /\ check_pc = "loop" => tmpdir = "exists" /\ tmpdirs_made = 1
    /\ \A i \in 1..Len(compiled_to) : compiled_to[i].tmpdir = "exists"
    /\ check_pc \in {"done", "raised"}
       => /\ tmpdir # "exists"
          /\ tmpdir = "removed" <=> tmpdirs_made = 1
          /\ candidate_files # <<>> => tmpdir = "removed"

C25_Witness ==
    /\ check_pc = "raised"
    /\ tmpdir = "removed"
    /\ tmpdirs_made = 1
    /\ \E i, j \in 1..Len(compiled_to) : compiled_to[i].file # compiled_to[j].file

\* C26: within one pass, two compilations of distinct (asset file, function) pairs
\* are written to distinct output paths.
C26_DistinctOutputPaths ==
    \A i, j \in 1..Len(compiled_to) :
       (compiled_to[i].file # compiled_to[j].file
          \/ compiled_to[i].func_name # compiled_to[j].func_name)
       => compiled_to[i].output_path # compiled_to[j].output_path

\* the directories argument in every order
DirectoryOrders(s) ==
    { [i \in 1..Len(s) |-> s[f[i]]] :
        f \in { g \in [1..Len(s) -> 1..Len(s)] :
                  \A i, j \in 1..Len(s) : i # j => g[i] # g[j] } }

\* the records of a pass over files in which no exception leaves the loop
RECURSIVE RecordsFor(_)
RecordsFor(files) ==
    IF files = <<>> THEN <<>>
    ELSE LET compiled == _compile_asset_images(Head(files))
         IN  (IF compiled.error # "none"
              THEN <<[file |-> Head(files).path, line_num |-> 0, status |-> "invalid",
                      error |-> compiled.error]>>
              ELSE IF compiled.is_none THEN <<>>
              ELSE ImageRecords(Head(files), compiled.images, check_args))
             \o RecordsFor(Tail(files))

\* C29: the records are ordered by file path, the images reported for one file are in
\* sorted order, and the returned list is the one every permutation of the
\* directories argument gives.
C29_OrderedAndPermutationInvariant ==
    check_pc = "done"
    => /\ \A i, j \in 1..Len(results) :
             i < j => /\ ~StrLess(results[j].file, results[i].file)
                      /\ (results[i].file = results[j].file
                          /\ "found" \in DOMAIN results[i] /\ "found" \in DOMAIN results[j])
                         => StrLess(results[i].found, results[j].found)
       /\ \A d \in DirectoryOrders(check_args.directories) :
             /\ _discover_candidate_asset_files(tree, d) = candidate_files
             /\ RecordsFor(_discover_candidate_asset_files(tree, d)) = results

C29_Witness ==
    /\ check_pc = "done"
    /\ check_args.directories = <<"p", "c">>
    /\ Len(results) >= 3
    /\ results[1].file[1] = "c"
    /\ results[Len(results)].file[1] = "p"
    /\ \E i, j \in 1..Len(results) :
          /\ i < j /\ results[i].file = results[j].file
          /\ "found" \in DOMAIN results[i] /\ "found" \in DOMAIN results[j]

-----------------------------------------------------------------------------
(* Claims about a batch that override_file_images aborts *)

BatchRaised == batch_pc \notin {"idle", "iterate", "returned"}

Processed == {reports[i].path : i \in 1..Len(reports)}

\* C27: an exception of override_file_images ends the batch with that exception; the
\* files processed before it that had candidates stay rewritten on disk unless the run
\* is a dry run, the file that raised and every file after it are as they were, and
\* no file is processed after it.
C27_NoRollback ==
    /\ \A i \in 1..Len(reports) :
          reports[i].outcome # "returned"
          => i = Len(reports) /\ batch_pc = reports[i].outcome
    /\ BatchRaised
       => /\ reports # <<>>
          /\ \A i \in 1..(Len(reports) - 1) :
                LET f == reports[i].path
                    rewritten == override_file_images(batch_fs0[f],
                                     batch_args.container_tag, batch_args.image_prefix,
                                     batch_args.dry_run)
                IN  /\ batch_fs[f] = rewritten.disk
                    /\ (HadCandidate(f) /\ ~batch_args.dry_run)
                       => batch_fs[f] # batch_fs0[f]
          /\ \A f \in DOMAIN batch_fs0 :
                (f = reports[Len(reports)].path \/ f \notin Processed
                   \/ batch_args.dry_run)
                => batch_fs[f] = batch_fs0[f]

C27_Witness ==
    /\ batch_pc = "ValueError"
    /\ ~batch_args.dry_run
    /\ Len(reports) = 2
    /\ reports[1].was_modified
    /\ batch_fs[reports[1].path] # batch_fs0[reports[1].path]
    /\ batch_fs0[reports[2].path] = FileMultiLine
    /\ \E f \in PyFound : f \notin Processed /\ HadCandidate(f)

-----------------------------------------------------------------------------
(* Claims about load_module_from_path *)

\* the calls under name that got as far as the registration
RegisteredLoads(name) ==
    {i \in 1..Len(load_log) :
       load_log[i].module_name = name /\ load_log[i].outcome # "ImportError"}

\* C30: the module is in the table under module_name before its body runs and is
\* never taken out: while the body runs the table holds the new, empty module; after
\* a body that raised, the partially initialised module is still registered; the
\* entry of a name is always the module of the latest load under that name.
C30_RegisteredBeforeExec ==
    /\ load_pc = "exec"
       => /\ sys_modules[loading.module_name].id = loading.id
          /\ sys_modules[loading.module_name].namespace = "empty"
    /\ \A name \in ModuleNames :
          IF RegisteredLoads(name) = {}
          THEN sys_modules[name] = NotRegistered
          ELSE LET last == load_log[Max(RegisteredLoads(name))]
               IN  /\ sys_modules[name].id = last.id
                   /\ sys_modules[name].namespace
                        = (CASE last.outcome = "executing" -> "empty"
                             [] last.outcome = "returns" -> "complete"
                             [] last.outcome = "FileNotFoundError" -> "empty"
                             [] last.outcome = "RuntimeError" -> "partial")

C30_Witness ==
    /\ load_pc = "ready"
    /\ Len(load_log) = 3
    /\ load_log[1].outcome = "RuntimeError"
    /\ load_log[2].outcome = "returns"
    /\ load_log[1].module_name = load_log[2].module_name
    /\ load_log[3].outcome = "RuntimeError"
    /\ load_log[3].module_name # load_log[1].module_name
    /\ sys_modules[load_log[2].module_name].id = 2
    /\ sys_modules[load_log[3].module_name].namespace = "partial"

====
